---------------------------- MODULE Spec2Model ----------------------------
(***************************************************************************)
(* A model of the split beacon / block maker / notarizer implementation    *)
(* of the Dfinity consensus simulation (package service).                  *)
(*                                                                         *)
(*   Spec       node 0 (beacon + callback finalizer), fed with the         *)
(*              notarized blocks the network produces.                     *)
(*   PairSpec   Spec with the finalizer of a block maker next to the one   *)
(*              of node 0, both fed with the same notarized blocks.        *)
(*   FairSpec   Spec with the fairness of the Go scheduler and of the      *)
(*              network (every goroutine eventually runs, every message    *)
(*              is eventually delivered).                                  *)
(*   RoundSpec  one roundStorage of a notarizer, with its blockStorages,   *)
(*              its round loop and the notarizer's finalizer.              *)
(*   OrderSpec  a notarizer that receives the beacon packets out of order, *)
(*              with the fairness of the scheduler and of the network.     *)
(***************************************************************************)
EXTENDS Integers, Sequences, FiniteSets, TLC

(***************************************************************************)
(* Configuration of TestDfinity and constants of the package.              *)
(***************************************************************************)
BeaconNb == 1
BlockMakerNb == 2
NotarizerNb == 3
Threshold == 3
TestSeed == 67912
seed == 1234567890
\* the Config TestDfinity hands to every node
TestConfig == [Seed |-> TestSeed, Threshold |-> Threshold]

(***************************************************************************)
(* Bounds of the model.                                                    *)
(***************************************************************************)
\* rounds for which blocks are proposed, and notarized blocks produced in all
MaxRound == 4
MaxBlocks == 5
\* the same for the specification with two finalizers
PairRounds == 3
PairBlocks == 4
\* the same for the specification with fairness
LiveRounds == 2
\* number of distinct values the model's PRNG yields
RandSpace == 2

(***************************************************************************)
(* Roster indices of the nodes whose finalizer is modelled.                *)
(***************************************************************************)
CallbackNode == 0
BlockMakerNode == BeaconNb
NotarizerNode == BeaconNb + BlockMakerNb
ChainNodes == {CallbackNode, BlockMakerNode}
FinNodes == ChainNodes \cup {NotarizerNode}

VARIABLES
    beacon,     \* the Beacon of node 0: [round, draws]
    packets,    \* BeaconPackets sent so far
    produced,   \* NotarizedBlocks broadcast by the notarizers so far
    fin,        \* node -> Finalizer
    panicked,   \* node -> "" or the panic that stopped the node
    rounds,     \* the rounds map of the notarizer: round -> roundStorage
    handoffs,   \* history: the NotarizedBlocks recovered by local aggregation
    signed,     \* history: the SignatureProposals HighestSignature returned
    loops,      \* round -> position of its roundLoop goroutine: "sleep", "run"
                \* (sigProposal is nil), "signed" (sigProposal is set), "exit"
                \* (returned and unlocked, the deferred drain pending), "done"
    nz,         \* the Notarizer: [round, tmpBeacon, tmpSigs, tmpBlocks, tmpNot]
    net,        \* the network: the beacon packets on their way to the
                \* notarizer, the NotarizedBlocks delivered to its node, the
                \* messages its round loops broadcast, the BlockProposals the
                \* block maker broadcast, and the number of copies of each
                \* NotarizedBlock the block maker received
    opened,     \* history: the rounds Notarizer.NewRound opened, in order
    tasks,      \* round -> the NewRound goroutine of the block maker for the
                \* beacon packet of the round: [p, pc]
    conf,       \* the Config every process is built with: [Seed, Threshold]
    locks       \* the notarizer's goroutines seen at their mutexes: who holds
                \* Notarizer.Cond.L and the Finalizer mutex, and where each
                \* goroutine stands

vars == <<beacon, packets, produced, fin, panicked, rounds, handoffs, signed,
          loops, nz, net, opened, tasks, conf, locks>>
chainVars == <<beacon, packets, produced>>
runVars == <<tasks, conf, locks>>
notVars == <<rounds, handoffs, signed, loops, nz, net, opened, runVars>>

(***************************************************************************)
(* Values.  Digests, signatures and blobs are tagged tuples: a digest is   *)
(* the tuple of what was written into the hash, so that two digests are    *)
(* equal exactly when their inputs are.                                    *)
(***************************************************************************)
Literal(txt) == <<"lit", txt>>

\* math/rand with a constant source: the k-th Int63() of rand.New(NewSource(s))
Int63(s, k) == (s + k) % RandSpace

\* BlockHeader.Hash: binary.Write rejects the int fields Owner and Round (they
\* are not fixed-size), so only PrvHash, Root and PrvSig reach the digest.
Hash(h) == <<"hash", h.PrvHash, h.Root, h.PrvSig>>

rootHash(blob) == <<"sha256", blob>>

GenesisBlock ==
    [ Round |-> 0, Owner |-> -1,
      Root |-> Literal("6afbc27f"),
      Randomness |-> 0,
      PrvHash |-> Literal("a948904f"),
      PrvSig |-> Literal("3605ff73"),
      Blob |-> Literal("Hello Genesis") ]

\* tbls.Recover: the unique threshold signature of the group over msg
Recover(msg) == <<"tsig", msg>>

\* the NotarizedBlock built at the end of AddPartialSig
NotarizedOf(b) ==
    [ Block |-> b, Hash |-> Hash(b), Signature |-> Recover(Hash(b)) ]

(***************************************************************************)
(* Go maps from round numbers to slices.                                   *)
(***************************************************************************)
Has(m, k) == k \in DOMAIN m
Get(m, k) == IF k \in DOMAIN m THEN m[k] ELSE <<>>
Put(m, k, v) == [x \in DOMAIN m \cup {k} |-> IF x = k THEN v ELSE m[x]]
Del(m, k) == [x \in DOMAIN m \ {k} |-> m[x]]

IsPrefix(s, t) == Len(s) <= Len(t) /\ \A i \in 1..Len(s) : s[i] = t[i]

(***************************************************************************)
(* Chain.                                                                  *)
(***************************************************************************)
\* a faulty Append that starts the slice anew
AppendRestarting(chain, b) == [panic |-> "", chain |-> <<b>>]

\* Chain.Append: the chain is the slice all; last = all[length]
ChainAppend(chain, b) ==
    IF Len(chain) > 0 /\ b.PrvHash # Hash(chain[Len(chain)])
    THEN [panic |-> "Append: that should never happen", chain |-> chain]
    ELSE [panic |-> "", chain |-> Append(chain, b)]

(***************************************************************************)
(* Finalizer.                                                              *)
(***************************************************************************)
NewFinalizer ==
    [ round |-> 1,
      notarized |-> (0 :> << [ Block |-> GenesisBlock,
                               Hash |-> Hash(GenesisBlock),
                               Signature |-> Literal("who are you old fool") ] >>),
      chain |-> <<>>,
      routines |-> <<>>,      \* the finalize goroutines alive: [round, pc, panic]
      doneLog |-> <<>> ]      \* the calls of the done callback

\* a faulty Store that does not look for the hash among the stored blocks
StoreUnchecked(f, n) ==
    IF n.Block.Round < f.round THEN f
    ELSE [f EXCEPT !.notarized =
             Put(f.notarized, n.Block.Round, Append(Get(f.notarized, n.Block.Round), n))]

\* Finalizer.Store
Store(f, n) ==
    IF n.Block.Round < f.round THEN f
    ELSE LET hash == Hash(n.Block)
             before == Has(f.notarized, f.round)
             key == n.Block.Round
             cur == Get(f.notarized, key)
         IN  IF \E i \in 1..Len(cur) : Hash(cur[i].Block) = hash THEN f
             ELSE LET g == [f EXCEPT !.notarized = Put(f.notarized, key, Append(cur, n))]
                  IN  IF ~before /\ key = f.round
                      THEN [g EXCEPT !.routines =
                                Append(@, [round |-> f.round, pc |-> "sleep", panic |-> ""])]
                      ELSE g

\* Finalizer.HighestRound
HighestRound(f) ==
    LET above == {r \in DOMAIN f.notarized : r > 0}
    IN  IF above = {} THEN 0 ELSE CHOOSE r \in above : \A q \in above : q <= r

\* the indices of prevBlocks referenced by a block of startBlocks, in order
referencedIdx(prevBlocks, startBlocks) ==
    SelectSeq([i \in 1..Len(prevBlocks) |-> i],
              LAMBDA i : \E j \in 1..Len(startBlocks) :
                            Hash(prevBlocks[i].Block) = startBlocks[j].Block.PrvHash)

\* Finalizer.purge, on the notarized map
purge(notarized, start) ==
    IF ~Has(notarized, start - 1)
    THEN [panic |-> "purge: that should not happen (no previous round)",
          notarized |-> notarized]
    ELSE IF Len(notarized[start - 1]) <= 1
    THEN [panic |-> "", notarized |-> notarized]
    ELSE IF ~Has(notarized, start)
    THEN [panic |-> "purge: that should not happen (no start round)",
          notarized |-> notarized]
    ELSE LET ref == referencedIdx(notarized[start - 1], notarized[start])
         IN  IF Len(ref) > 1
             THEN [panic |-> "purge: that should not happen (more than one referenced)",
                   notarized |-> notarized]
             ELSE IF Len(ref) = 0
             THEN [panic |-> "purge: index out of range", notarized |-> notarized]
             ELSE [panic |-> "",
                   notarized |-> Put(notarized, start - 1,
                                     << notarized[start - 1][ref[1]] >>)]

\* a faulty finalize that advances the cursor and appends nothing
finalizeCursorOnly(f, round) == [panic |-> "", f |-> [f EXCEPT !.round = @ + 1]]

\* Finalizer.finalize between f.Lock() and the deferred f.Unlock()
finalize(f, round) ==
    IF round - 1 <= 0
    THEN [panic |-> "", f |-> [f EXCEPT !.round = @ + 1]]
    ELSE LET p == purge(f.notarized, round - 1)
             g == [f EXCEPT !.notarized = p.notarized]
         IN  IF p.panic # "" THEN [panic |-> p.panic, f |-> g]
             ELSE IF Len(Get(g.notarized, round - 2)) = 0
             THEN [panic |-> "finalize: index out of range", f |-> g]
             ELSE LET b == g.notarized[round - 2][1]
                      a == ChainAppend(g.chain, b.Block)
                  IN  IF a.panic # "" THEN [panic |-> a.panic, f |-> g]
                      ELSE [panic |-> "",
                            f |-> [g EXCEPT !.chain = a.chain,
                                            !.notarized = Del(g.notarized, round - 2),
                                            !.round = @ + 1]]

\* whether the node's Finalizer was built with a done callback
HasDone(node) == node # BlockMakerNode

(***************************************************************************)
(* Beacon.                                                                 *)
(***************************************************************************)
NewBeaconProcess == [round |-> 0, draws |-> 0]

BeaconPacket(b) == [Round |-> b.round, Randomness |-> Int63(seed, b.draws)]

\* a faulty NewRound that starts a round for a block of an earlier round too
NewRoundAnyway(b, r) ==
    IF r > b.round THEN b
    ELSE [round |-> b.round + 1, draws |-> b.draws + 1]

\* Beacon.NewRound: the beacon after the call
NewRound(b, r) ==
    IF r # b.round THEN b
    ELSE [round |-> b.round + 1, draws |-> b.draws + 1]

(***************************************************************************)
(* Block maker.                                                            *)
(***************************************************************************)
\* a faulty block that always refers to the genesis block
NewBlockOnGenesis(p, index, oldBlock) ==
    LET blob == <<"rand", p.Round * BlockMakerNb + (index - BeaconNb)>>
    IN  [ Round |-> p.Round,
          Owner |-> index - BeaconNb,
          Root |-> rootHash(blob),
          Randomness |-> p.Randomness,
          PrvHash |-> Hash(GenesisBlock),
          PrvSig |-> oldBlock.Signature,
          Blob |-> blob ]

\* the BlockProposal BlockMaker.NewRound builds for beacon packet p on top of
\* oldBlock; the blob is fresh random data, named by the round and the owner
NewBlock(p, index, oldBlock) ==
    LET blob == <<"rand", p.Round * BlockMakerNb + (index - BeaconNb)>>
    IN  [ Round |-> p.Round,
          Owner |-> index - BeaconNb,
          Root |-> rootHash(blob),
          Randomness |-> p.Randomness,
          PrvHash |-> Hash(oldBlock.Block),
          PrvSig |-> oldBlock.Signature,
          Blob |-> blob ]

(***************************************************************************)
(* Weights.                                                                *)
(***************************************************************************)
\* math/rand: the k-th Intn(bound) of a generator seeded with src
Intn(src, k, bound) == (src + k) % bound

\* rand.Perm(n) of a generator seeded with src, as the slice m (0-based
\* values, 1-based positions): for i in 0..n-1 { j := Intn(i+1); m[i] = m[j];
\* m[j] = i }
RECURSIVE PermLoop(_, _, _, _)
PermLoop(src, n, i, m) ==
    IF i >= n THEN m
    ELSE LET j == Intn(src, i, i + 1)
             m1 == [m EXCEPT ![i + 1] = m[j + 1]]
             m2 == [m1 EXCEPT ![j + 1] = i]
         IN  PermLoop(src, n, i + 1, m2)

Permutation(n, randomness) == PermLoop(randomness, n, 0, [i \in 1..n |-> 0])

\* a faulty Weights that forgets the + 1
WeightsFromZero(n, randomness) ==
    LET perm == Permutation(n, randomness)
    IN  [i \in 1..n |-> perm[i]]

\* Weights: weights[i] = perm[i] + 1 (position owner + 1 holds the weight of owner)
Weights(n, randomness) ==
    LET perm == Permutation(n, randomness)
    IN  [i \in 1..n |-> perm[i] + 1]

\* an optional value: nil, or a pointer to x
Nil == <<>>
Some(x) == <<x>>

(***************************************************************************)
(* Finalizer.HighestChainHead.  The result: the block returned (ret), the  *)
(* error returned (err), or the panic the call ends in.                    *)
(***************************************************************************)
\* getWeight: weights[block.Owner] of the weights of the block's randomness.
\* The weights are kept per round in allWeights; one beacon packet per round
\* gives the blocks of a round one randomness.
getWeight(block) == Weights(BlockMakerNb, block.Block.Randomness)[block.Block.Owner + 1]

\* maxWeightToBlock: the own weight at the round after the chain length; the
\* own weight when the round before has blocks ("should never happen
\* though"); the loop over the blocks of the round before runs on a nil slice
\* otherwise and adds nothing
maxWeightToBlock(f, block) ==
    LET weight == getWeight(block)
    IN  IF block.Block.Round - 1 = Len(f.chain) THEN weight
        ELSE IF Has(f.notarized, block.Block.Round - 1) THEN weight
        ELSE 0 + weight

\* the loop over the blocks of the round, from block i on
RECURSIVE maxBlockFrom(_, _, _, _, _)
maxBlockFrom(f, blocks, i, maximum, maxBlock) ==
    IF i > Len(blocks) THEN maxBlock
    ELSE LET chainWeight == maxWeightToBlock(f, blocks[i])
         IN  IF maximum < chainWeight
             THEN maxBlockFrom(f, blocks, i + 1, chainWeight, Some(blocks[i]))
             ELSE maxBlockFrom(f, blocks, i + 1, maximum, maxBlock)

HighestChainHead(f, round) ==
    IF round = 0
    THEN IF Len(Get(f.notarized, 0)) = 0
         THEN [ret |-> Nil, err |-> "", panic |-> "index out of range"]
         ELSE [ret |-> Some(f.notarized[0][1]), err |-> "", panic |-> ""]
    ELSE IF ~Has(f.notarized, round)
    THEN [ret |-> Nil, err |-> "no blocks exists for this round", panic |-> ""]
    ELSE LET maxBlock == maxBlockFrom(f, f.notarized[round], 1, 0, Nil)
         IN  IF maxBlock = Nil
             THEN [ret |-> Nil, err |-> "no max block found for given round", panic |-> ""]
             ELSE [ret |-> maxBlock, err |-> "", panic |-> ""]

(***************************************************************************)
(* Threshold signatures (kyber tbls): a partial signature names the share   *)
(* that made it and the message it signs.                                  *)
(***************************************************************************)
Sign(share, msg) == <<"psig", share, msg>>
Index(s) == s[2]
Verify(msg, s) == s[3] = msg

(***************************************************************************)
(* blockStorage.                                                           *)
(***************************************************************************)
newBlockStorage(b) == [block |-> b, sigs |-> <<>>, notarized |-> FALSE]

\* a faulty AddPartialSig that recovers one partial early
AddPartialSigEarly(b, s) ==
    IF b.notarized THEN [b |-> b, notarized |-> Nil, err |-> ""]
    ELSE IF ~Verify(Hash(b.block), s)
    THEN [b |-> b, notarized |-> Nil, err |-> "InvalidSignature"]
    ELSE LET sigs == Put(b.sigs, Index(s), s)
         IN  IF Cardinality(DOMAIN sigs) < conf.Threshold - 1
             THEN [b |-> [b EXCEPT !.sigs = sigs], notarized |-> Nil, err |-> ""]
             ELSE [b |-> [b EXCEPT !.sigs = sigs, !.notarized = TRUE],
                   notarized |-> Some(NotarizedOf(b.block)),
                   err |-> ""]

\* a faulty AddPartialSig that does not verify the partial
AddPartialSigUnverified(b, s) ==
    IF b.notarized THEN [b |-> b, notarized |-> Nil, err |-> ""]
    ELSE LET sigs == Put(b.sigs, Index(s), s)
         IN  IF Cardinality(DOMAIN sigs) < conf.Threshold
             THEN [b |-> [b EXCEPT !.sigs = sigs], notarized |-> Nil, err |-> ""]
             ELSE [b |-> [b EXCEPT !.sigs = sigs, !.notarized = TRUE],
                   notarized |-> Some(NotarizedOf(b.block)),
                   err |-> ""]

\* a faulty AddPartialSig that does not look at the notarized flag
AddPartialSigAgain(b, s) ==
    IF ~Verify(Hash(b.block), s)
    THEN [b |-> b, notarized |-> Nil, err |-> "InvalidSignature"]
    ELSE LET sigs == Put(b.sigs, Index(s), s)
         IN  IF Cardinality(DOMAIN sigs) < conf.Threshold
             THEN [b |-> [b EXCEPT !.sigs = sigs], notarized |-> Nil, err |-> ""]
             ELSE [b |-> [b EXCEPT !.sigs = sigs, !.notarized = TRUE],
                   notarized |-> Some(NotarizedOf(b.block)),
                   err |-> ""]

\* blockStorage.AddPartialSig: the storage after the call and what it returns
AddPartialSig(b, s) ==
    IF b.notarized THEN [b |-> b, notarized |-> Nil, err |-> ""]
    ELSE IF ~Verify(Hash(b.block), s)
    THEN [b |-> b, notarized |-> Nil, err |-> "InvalidSignature"]
    ELSE LET sigs == Put(b.sigs, Index(s), s)
         IN  IF Cardinality(DOMAIN sigs) < conf.Threshold
             THEN [b |-> [b EXCEPT !.sigs = sigs], notarized |-> Nil, err |-> ""]
             ELSE [b |-> [b EXCEPT !.sigs = sigs, !.notarized = TRUE],
                   notarized |-> Some(NotarizedOf(b.block)),
                   err |-> ""]

\* blockStorage.SignatureProposal, for the share of this notarizer
SignatureProposal(b, share) ==
    [Block |-> b.block, Partial |-> Sign(share, Hash(b.block))]

(***************************************************************************)
(* roundStorage.  Each operation yields the storage r and the finalizer f  *)
(* after the call, the panic it ended in, and what it returns.             *)
(***************************************************************************)
newRoundStorage(round, randomness) ==
    [ Round |-> round,
      blocks |-> <<>>,
      randomness |-> randomness,
      weights |-> Weights(BlockMakerNb, randomness),
      maxWeightNotarized |-> -1,
      maxNotarized |-> Nil,
      maxWeightSig |-> -1,
      notarizeds |-> <<>> ]

\* a faulty StoreBlockProposal that makes a fresh storage for a known block
StoreBlockProposalAnew(r, p) ==
    IF p.Round # r.Round THEN [panic |-> "this should never happen", r |-> r]
    ELSE [panic |-> "", r |-> [r EXCEPT !.blocks = Put(@, Hash(p), newBlockStorage(p))]]

\* roundStorage.StoreBlockProposal
StoreBlockProposal(r, p) ==
    IF p.Round # r.Round THEN [panic |-> "this should never happen", r |-> r]
    ELSE IF ~Has(r.blocks, Hash(p))
    THEN [panic |-> "", r |-> [r EXCEPT !.blocks = Put(@, Hash(p), newBlockStorage(p))]]
    ELSE [panic |-> "", r |-> r]

\* roundStorage.StoreNotarizedBlock
StoreNotarizedBlock(r, f, n) ==
    [r |-> [r EXCEPT !.notarizeds = Append(@, n)], f |-> Store(f, n)]

\* roundStorage.StoreSignatureProposal; local is the block notarized by the call
StoreSignatureProposal(r, f, s) ==
    IF s.Block.Round # r.Round
    THEN [panic |-> "this should never happen", r |-> r, f |-> f, local |-> Nil]
    ELSE LET h == Hash(s.Block)
         IN  IF ~Has(r.blocks, h)
             THEN [panic |-> "",
                   r |-> [r EXCEPT !.blocks = Put(@, h, newBlockStorage(s.Block))],
                   f |-> f, local |-> Nil]
             ELSE LET res == AddPartialSig(r.blocks[h], s.Partial)
                      r1 == [r EXCEPT !.blocks[h] = res.b]
                  IN  IF res.err # "" THEN [panic |-> "", r |-> r1, f |-> f, local |-> Nil]
                      ELSE IF res.notarized # Nil
                      THEN LET st == StoreNotarizedBlock(r1, f, res.notarized[1])
                           IN  [panic |-> "", r |-> st.r, f |-> st.f,
                                local |-> res.notarized]
                      ELSE [panic |-> "", r |-> r1, f |-> f, local |-> Nil]

\* the weight of the owner of a block in this round
Weight(r, b) == r.weights[b.Owner + 1]

\* a faulty HighestNotarizedBlock that takes the first notarized block above
\* the watermark, whatever its weight
HighestNotarizedBlockFirst(r) ==
    LET above == {i \in 1..Len(r.notarizeds) :
                     Weight(r, r.notarizeds[i].Block) > r.maxWeightNotarized}
    IN  IF above = {} THEN [r |-> [r EXCEPT !.maxNotarized = Nil], ret |-> Nil]
        ELSE LET first == CHOOSE i \in above : \A j \in above : i <= j
                 n == r.notarizeds[first]
             IN  [r |-> [r EXCEPT !.maxWeightNotarized = Weight(r, n.Block),
                                  !.maxNotarized = Some(n)],
                  ret |-> Some(n)]

\* a faulty HighestNotarizedBlock that forgets the watermark when no stored
\* block is above it
HighestNotarizedBlockForgetful(r) ==
    LET above == {i \in 1..Len(r.notarizeds) :
                     Weight(r, r.notarizeds[i].Block) > r.maxWeightNotarized}
    IN  IF above = {}
        THEN [r |-> [r EXCEPT !.maxNotarized = Nil, !.maxWeightNotarized = -1],
              ret |-> Nil]
        ELSE LET best == CHOOSE i \in above :
                            \A j \in above : Weight(r, r.notarizeds[j].Block)
                                                <= Weight(r, r.notarizeds[i].Block)
             IN  [r |-> [r EXCEPT !.maxWeightNotarized =
                                     Weight(r, r.notarizeds[best].Block),
                                  !.maxNotarized = Some(r.notarizeds[best])],
                  ret |-> Some(r.notarizeds[best])]

\* a faulty HighestNotarizedBlock that leaves the watermark where it was
HighestNotarizedBlockStale(r) ==
    LET above == {i \in 1..Len(r.notarizeds) :
                     Weight(r, r.notarizeds[i].Block) > r.maxWeightNotarized}
    IN  IF above = {} THEN [r |-> [r EXCEPT !.maxNotarized = Nil], ret |-> Nil]
        ELSE LET best == CHOOSE i \in above :
                            \A j \in above : Weight(r, r.notarizeds[j].Block)
                                                <= Weight(r, r.notarizeds[i].Block)
             IN  [r |-> [r EXCEPT !.maxNotarized = Some(r.notarizeds[best])],
                  ret |-> Some(r.notarizeds[best])]

\* roundStorage.HighestNotarizedBlock: the first notarized block of the
\* greatest weight above the watermark
HighestNotarizedBlock(r) ==
    LET above == {i \in 1..Len(r.notarizeds) :
                     Weight(r, r.notarizeds[i].Block) > r.maxWeightNotarized}
    IN  IF above = {} THEN [r |-> [r EXCEPT !.maxNotarized = Nil], ret |-> Nil]
        ELSE LET best == CHOOSE i \in above :
                            \A j \in above :
                               \/ Weight(r, r.notarizeds[j].Block)
                                     < Weight(r, r.notarizeds[i].Block)
                               \/ /\ Weight(r, r.notarizeds[j].Block)
                                        = Weight(r, r.notarizeds[i].Block)
                                  /\ i <= j
                 n == r.notarizeds[best]
             IN  [r |-> [r EXCEPT !.maxWeightNotarized = Weight(r, n.Block),
                                  !.maxNotarized = Some(n)],
                  ret |-> Some(n)]

\* roundStorage.IsNotarized
IsNotarized(r) == Len(r.notarizeds) > 0

\* a faulty HighestSignature that leaves maxWeightSig where it was
HighestSignatureStale(r, f, share) ==
    LET above == {h \in DOMAIN r.blocks : Weight(r, r.blocks[h].block) > r.maxWeightSig}
    IN  IF above = {} THEN [panic |-> "", r |-> r, f |-> f, local |-> Nil, ret |-> Nil]
        ELSE LET best == CHOOSE h \in above :
                            \A g \in above : Weight(r, r.blocks[g].block)
                                                <= Weight(r, r.blocks[h].block)
                 maxSig == SignatureProposal(r.blocks[best], share)
                 st == StoreSignatureProposal(r, f, maxSig)
             IN  [panic |-> st.panic, r |-> st.r, f |-> st.f, local |-> st.local,
                  ret |-> Some(maxSig)]

\* roundStorage.HighestSignature for the share of this notarizer. The known
\* blocks of a round have different owners, hence different weights, so the
\* order in which the map is walked does not matter.
HighestSignature(r, f, share) ==
    LET above == {h \in DOMAIN r.blocks : Weight(r, r.blocks[h].block) > r.maxWeightSig}
    IN  IF above = {} THEN [panic |-> "", r |-> r, f |-> f, local |-> Nil, ret |-> Nil]
        ELSE LET best == CHOOSE h \in above :
                            \A g \in above : Weight(r, r.blocks[g].block)
                                                <= Weight(r, r.blocks[h].block)
                 maxSig == SignatureProposal(r.blocks[best], share)
                 r1 == [r EXCEPT !.maxWeightSig = Weight(r, r.blocks[best].block)]
                 st == StoreSignatureProposal(r1, f, maxSig)
             IN  [panic |-> st.panic, r |-> st.r, f |-> st.f, local |-> st.local,
                  ret |-> Some(maxSig)]

(***************************************************************************)
(* Notarizer.                                                              *)
(***************************************************************************)
\* NewNotarizerProcess: the round and the maps of early beacons, signature
\* proposals, block proposals and notarized blocks
NewNotarizerProcess ==
    [round |-> 0, tmpBeacon |-> <<>>, tmpSigs |-> <<>>, tmpBlocks |-> <<>>,
     tmpNot |-> <<>>]

\* no goroutine of the notarizer holds or awaits a mutex
NoLocks == [L |-> Nil, F |-> Nil, pc |-> <<>>]

NoMessages ==
    [order |-> <<>>, beacons |-> <<>>, delivered |-> {}, proposals |-> <<>>,
     notarized |-> <<>>, blocks |-> <<>>, received |-> <<>>]

\* a faulty NewRound that drops a beacon that is too early
NotarizerNewRoundDropping(z, rs, b) ==
    IF b.Round # z.round + 1 THEN [nz |-> z, rounds |-> rs, spawned |-> FALSE]
    ELSE [nz |-> [z EXCEPT !.round = @ + 1],
          rounds |-> Put(rs, z.round + 1,
                         newRoundStorage(z.round + 1, b.Randomness)),
          spawned |-> TRUE]

\* Notarizer.NewRound for beacon packet b: the notarizer and its rounds after
\* the call, and whether it opened the round and started its roundLoop
NotarizerNewRound(z, rs, b) ==
    IF b.Round <= z.round THEN [nz |-> z, rounds |-> rs, spawned |-> FALSE]
    ELSE IF b.Round # z.round + 1
    THEN [nz |-> [z EXCEPT !.tmpBeacon = Put(@, b.Round, b)],
          rounds |-> rs, spawned |-> FALSE]
    ELSE [nz |-> [z EXCEPT !.round = @ + 1],
          rounds |-> Put(rs, z.round + 1,
                         newRoundStorage(z.round + 1, b.Randomness)),
          spawned |-> TRUE]

(***************************************************************************)
(* Initial state: every process constructed, the callback attached.        *)
(***************************************************************************)
Init ==
    /\ tasks = <<>>
    /\ conf = TestConfig
    /\ locks = NoLocks
    /\ beacon = NewBeaconProcess
    /\ packets = {}
    /\ produced = {}
    /\ fin = [n \in FinNodes |-> NewFinalizer]
    /\ panicked = [n \in FinNodes |-> ""]
    /\ rounds = <<>>
    /\ handoffs = <<>>
    /\ signed = <<>>
    /\ loops = <<>>
    /\ nz = NewNotarizerProcess
    /\ net = NoMessages
    /\ opened = <<>>

Alive(node) == panicked[node] = ""

(***************************************************************************)
(* Actions of Spec.                                                        *)
(***************************************************************************)
\* Dfinity.Start -> Beacon.Start -> NewRound(0)
Start ==
    /\ Alive(CallbackNode)
    /\ beacon.round = 0
    /\ beacon' = NewRound(beacon, 0)
    /\ packets' = packets \cup {BeaconPacket(beacon')}
    /\ UNCHANGED <<produced, fin, panicked, notVars>>

\* Dfinity.Process at node 0 for a NotarizedBlock: Beacon.Process, which
\* calls NewRound(inner.Round), then d.fin.Store(inner)
Process(n) ==
    /\ Alive(CallbackNode)
    /\ beacon' = NewRound(beacon, n.Block.Round)
    /\ packets' = IF beacon' # beacon THEN packets \cup {BeaconPacket(beacon')}
                  ELSE packets
    /\ fin' = [fin EXCEPT ![CallbackNode] = Store(@, n)]
    /\ UNCHANGED <<produced, panicked, notVars>>

\* A block maker that received packet p builds its proposal on a notarized
\* block of the previous round held by its finalizer; the notarizers gather
\* Threshold partial signatures on it and broadcast the NotarizedBlock.
ProposeAndNotarize(p, index, oldBlock) ==
    /\ oldBlock.Block.Round = p.Round - 1
    /\ \A n \in produced : ~(n.Block.Round = p.Round /\ n.Block.Owner = index - BeaconNb)
    /\ produced' = produced \cup {NotarizedOf(NewBlock(p, index, oldBlock))}
    /\ UNCHANGED <<beacon, packets, fin, panicked, notVars>>

\* sync.Cond.Broadcast: wakes the goroutines parked in Wait, and only those
Broadcast(ts) ==
    [round \in DOMAIN ts |->
        IF ts[round].pc = "wait" THEN [ts[round] EXCEPT !.pc = "woken"] ELSE ts[round]]

\* BlockMaker.Process for a NotarizedBlock, under the BlockMaker's own mutex:
\* b.fin.Store(inner), then b.Cond.Broadcast()
BlockMakerStore(n) ==
    /\ Alive(BlockMakerNode)
    /\ fin' = [fin EXCEPT ![BlockMakerNode] = Store(@, n)]
    /\ tasks' = Broadcast(tasks)
    /\ UNCHANGED <<beacon, packets, produced, panicked, rounds, handoffs, signed,
                   loops, nz, net, opened, conf, locks>>

RemoveAt(s, i) == [j \in 1..(Len(s) - 1) |-> IF j < i THEN s[j] ELSE s[j + 1]]

\* A finalize goroutine of node 0 or of a block maker wakes up and runs to its
\* end: the locked part, the deferred Unlock and the deferred done(round),
\* which here touches nothing of the finalizer. A panic stops the node after
\* the deferred calls.
Finalize(node, i) ==
    /\ Alive(node)
    /\ fin[node].routines[i].pc = "sleep"
    /\ LET f == fin[node]
           round == f.routines[i].round
           res == finalize(f, round)
       IN  /\ fin' = [fin EXCEPT ![node] =
                        [res.f EXCEPT !.routines = RemoveAt(@, i),
                                      !.doneLog = IF HasDone(node) THEN Append(@, round)
                                                  ELSE @]]
           /\ panicked' = [panicked EXCEPT ![node] = res.panic]
    /\ UNCHANGED <<beacon, packets, produced, notVars>>

\* the notarized blocks a block maker's finalizer can hold for round r
Heads(r) ==
    IF r = 0 THEN {NewFinalizer.notarized[0][1]}
    ELSE {n \in produced : n.Block.Round = r}

\* the block makers and the notarizers, for the packets of rounds up to maxRound
\* and at most maxBlocks notarized blocks
Network(maxRound, maxBlocks) ==
    /\ Cardinality(produced) < maxBlocks
    /\ \E p \in packets, index \in BeaconNb..(BeaconNb + BlockMakerNb - 1) :
          /\ p.Round <= maxRound
          /\ \E oldBlock \in Heads(p.Round - 1) : ProposeAndNotarize(p, index, oldBlock)

FinalizeAt(node) == \E i \in 1..Len(fin[node].routines) : Finalize(node, i)

(***************************************************************************)
(* Spec: node 0 and the network.                                           *)
(***************************************************************************)
Next ==
    \/ Start
    \/ \E n \in produced : Process(n)
    \/ Network(MaxRound, MaxBlocks)
    \/ FinalizeAt(CallbackNode)

Spec == Init /\ [][Next]_vars

(***************************************************************************)
(* PairSpec: node 0, a block maker and the network.                        *)
(***************************************************************************)
PairNext ==
    \/ Start
    \/ \E n \in produced : Process(n)
    \/ Network(PairRounds, PairBlocks)
    \/ \E n \in produced : BlockMakerStore(n)
    \/ \E node \in ChainNodes : FinalizeAt(node)

PairSpec == Init /\ [][PairNext]_vars

(***************************************************************************)
(* MakerSpec: node 0, the first block maker with its NewRound goroutines,  *)
(* the second block maker and the notarizers.                              *)
(***************************************************************************)
\* BlockMaker.Process for a BeaconPacket and the goroutine it starts, at the
\* end of its wait: NewRound waits until the finalizer has seen the round
\* before, takes the head HighestChainHead returns, builds the block on it
\* and broadcasts the proposal; an error of HighestChainHead is a panic
BlockMakerNewRound(p) ==
    /\ Alive(BlockMakerNode)
    /\ p.Round <= LiveRounds
    /\ \A i \in 1..Len(net.blocks) : net.blocks[i].Round # p.Round
    /\ HighestRound(fin[BlockMakerNode]) >= p.Round - 1
    /\ \E head \in {HighestChainHead(fin[BlockMakerNode], p.Round - 1)} :
          IF head.panic # "" \/ head.err # ""
          THEN /\ panicked' = [panicked EXCEPT ![BlockMakerNode] =
                                  IF head.panic # "" THEN head.panic ELSE head.err]
               /\ UNCHANGED net
          ELSE /\ net' = [net EXCEPT !.blocks =
                             Append(@, NewBlock(p, BlockMakerNode, head.ret[1]))]
               /\ UNCHANGED panicked
    /\ UNCHANGED <<chainVars, fin, rounds, handoffs, signed, loops, nz, opened, runVars>>

\* the notarizers gather Threshold partial signatures on a proposal of the
\* block maker and broadcast the NotarizedBlock
Notarize(b) ==
    /\ produced' = produced \cup {NotarizedOf(b)}
    /\ UNCHANGED <<beacon, packets, fin, panicked, notVars>>

MakerNext ==
    \/ Start
    \/ \E n \in produced : Process(n)
    \/ \E p \in packets : BlockMakerNewRound(p)
    \/ \E i \in 1..Len(net.blocks) : Notarize(net.blocks[i])
    \/ \E p \in packets : \E oldBlock \in Heads(p.Round - 1) :
          p.Round <= LiveRounds /\ ProposeAndNotarize(p, BeaconNb + 1, oldBlock)
    \/ \E n \in produced : BlockMakerStore(n)
    \/ FinalizeAt(BlockMakerNode)

MakerSpec == Init /\ [][MakerNext]_vars

(***************************************************************************)
(* WaitSpec: node 0, the notarizers and the first block maker, with its    *)
(* NewRound goroutines seen at the condition variable. A goroutine is at   *)
(* "start" (spawned, Cond.L not taken yet), "towait" (holds Cond.L, found  *)
(* the finalizer behind and is about to call Wait), "wait" (parked in      *)
(* Wait, Cond.L released), "woken" (signalled, taking Cond.L again) or     *)
(* "done".                                                                 *)
(***************************************************************************)
\* BlockMaker.Process for a BeaconPacket: go b.NewRound(inner)
BlockMakerBeacon(p) ==
    /\ Alive(BlockMakerNode)
    /\ p.Round <= LiveRounds
    /\ ~Has(tasks, p.Round)
    /\ tasks' = Put(tasks, p.Round, [p |-> p, pc |-> "start"])
    /\ UNCHANGED <<chainVars, fin, panicked, rounds, handoffs, signed, loops, nz,
                   net, opened, conf, locks>>

\* BlockMaker.NewRound from b.Cond.L.Lock(), or from the return of Wait, to
\* the next call of Wait or to the end: the test of the loop, which reads
\* the finalizer under the finalizer's mutex only, then the proposal built on
\* HighestChainHead and its broadcast. Process does not take Cond.L, so
\* Store and Broadcast can run between the test and the call of Wait.
NewRoundTest(round) ==
    /\ Alive(BlockMakerNode)
    /\ tasks[round].pc \in {"start", "woken"}
    /\ \A r \in DOMAIN tasks : tasks[r].pc # "towait"
    /\ IF HighestRound(fin[BlockMakerNode]) < round - 1
       THEN /\ tasks' = [tasks EXCEPT ![round].pc = "towait"]
            /\ UNCHANGED <<net, panicked>>
       ELSE /\ tasks' = [tasks EXCEPT ![round].pc = "done"]
            /\ \E head \in {HighestChainHead(fin[BlockMakerNode], round - 1)} :
                  IF head.panic # "" \/ head.err # ""
                  THEN /\ panicked' = [panicked EXCEPT ![BlockMakerNode] =
                                          IF head.panic # "" THEN head.panic ELSE head.err]
                       /\ UNCHANGED net
                  ELSE /\ net' = [net EXCEPT !.blocks =
                                     Append(@, NewBlock(tasks[round].p, BlockMakerNode,
                                                        head.ret[1]))]
                       /\ UNCHANGED panicked
    /\ UNCHANGED <<chainVars, fin, rounds, handoffs, signed, loops, nz, opened,
                   conf, locks>>

\* sync.Cond.Wait: the goroutine joins the waiters and releases Cond.L
NewRoundWait(round) ==
    /\ Alive(BlockMakerNode)
    /\ tasks[round].pc = "towait"
    /\ tasks' = [tasks EXCEPT ![round].pc = "wait"]
    /\ UNCHANGED <<chainVars, fin, panicked, rounds, handoffs, signed, loops, nz,
                   net, opened, conf, locks>>

\* BlockMaker.Process for one of the copies of a NotarizedBlock: each
\* notarizer that recovers the block broadcasts it to the roster once
BlockMakerProcess(n) ==
    /\ Alive(BlockMakerNode)
    /\ ~(Has(net.received, n) /\ net.received[n] = NotarizerNb)
    /\ net' = [net EXCEPT !.received =
                  Put(@, n, IF Has(@, n) THEN @[n] + 1 ELSE 1)]
    /\ fin' = [fin EXCEPT ![BlockMakerNode] = Store(@, n)]
    /\ tasks' = Broadcast(tasks)
    /\ UNCHANGED <<beacon, packets, produced, panicked, rounds, handoffs, signed,
                   loops, nz, opened, conf, locks>>

WaitNext ==
    \/ Start
    \/ \E n \in produced : Process(n)
    \/ \E p \in packets : BlockMakerBeacon(p)
    \/ \E round \in DOMAIN tasks : NewRoundTest(round)
    \/ \E round \in DOMAIN tasks : NewRoundWait(round)
    \/ \E i \in 1..Len(net.blocks) : Notarize(net.blocks[i])
    \/ \E n \in produced : BlockMakerProcess(n)
    \/ FinalizeAt(BlockMakerNode)

\* every goroutine of the block maker and of node 0 is eventually scheduled
\* and every message sent to them eventually delivered; the second block
\* maker, which runs the same code, stays behind
WaitSpec ==
    /\ Init /\ [][WaitNext]_vars
    /\ WF_vars(\/ Start
               \/ \E n \in produced : Process(n)
               \/ \E i \in 1..Len(net.blocks) : Notarize(net.blocks[i]))
    /\ WF_vars(\/ \E p \in packets : BlockMakerBeacon(p)
               \/ \E n \in produced : BlockMakerProcess(n))
    /\ WF_vars(\E round \in DOMAIN tasks : NewRoundTest(round) \/ NewRoundWait(round))
    /\ WF_vars(FinalizeAt(BlockMakerNode))

(***************************************************************************)
(* FairSpec: node 0 and the network; every goroutine is eventually         *)
(* scheduled and every message eventually delivered.                       *)
(***************************************************************************)
LiveNext ==
    \/ Start
    \/ \E n \in produced : Process(n)
    \/ Network(LiveRounds, BlockMakerNb * LiveRounds + 1)
    \/ FinalizeAt(CallbackNode)

FairSpec ==
    /\ Init /\ [][LiveNext]_vars
    /\ WF_vars(Start)
    /\ WF_vars(\E n \in produced : Process(n))
    /\ WF_vars(Network(LiveRounds, BlockMakerNb * LiveRounds + 1))
    /\ WF_vars(FinalizeAt(CallbackNode))

(***************************************************************************)
(* SeedSpec: node 0 and the network, the nodes built with any of a few     *)
(* values of Config.Seed.                                                  *)
(***************************************************************************)
Seeds == {TestSeed, TestSeed + 1, seed}

SeedInit ==
    /\ conf \in {[TestConfig EXCEPT !.Seed = s] : s \in Seeds}
    /\ beacon = NewBeaconProcess
    /\ packets = {}
    /\ produced = {}
    /\ fin = [n \in FinNodes |-> NewFinalizer]
    /\ panicked = [n \in FinNodes |-> ""]
    /\ rounds = <<>>
    /\ handoffs = <<>>
    /\ signed = <<>>
    /\ loops = <<>>
    /\ nz = NewNotarizerProcess
    /\ net = NoMessages
    /\ opened = <<>>
    /\ tasks = <<>>
    /\ locks = NoLocks

SeedSpec == SeedInit /\ [][LiveNext]_vars

(***************************************************************************)
(* RoundSpec: the storage of round 1 of the notarizer with share 0, right   *)
(* after Notarizer.NewRound opened it, with the notarizer's finalizer. The  *)
(* handlers and the round loop call its operations with the block           *)
(* proposals of the round and partial signatures on them (the ones of the  *)
(* other notarizers, and noise); their notarized blocks reach the node.    *)
(***************************************************************************)
Share == NotarizerNode - BeaconNb - BlockMakerNb
\* the round of the first beacon packet, which Notarizer.NewRound opens
OpenRound == NewRound(NewBeaconProcess, NewBeaconProcess.round).round

RoundInit ==
    /\ tasks = <<>>
    /\ conf = TestConfig
    /\ locks = NoLocks
    /\ beacon = NewBeaconProcess
    /\ packets = {}
    /\ produced = {}
    /\ fin = [n \in FinNodes |-> NewFinalizer]
    /\ panicked = [n \in FinNodes |-> ""]
    /\ \E randomness \in 0..(RandSpace - 1) :
          LET nr == NotarizerNewRound(NewNotarizerProcess, <<>>,
                                      [Round |-> OpenRound, Randomness |-> randomness])
          IN  nz = nr.nz /\ rounds = nr.rounds
    /\ handoffs = <<>>
    /\ signed = <<>>
    /\ loops = (OpenRound :> "sleep")
    /\ net = NoMessages
    /\ opened = <<OpenRound>>

\* the block proposals of the open round
Proposals ==
    IF ~Has(rounds, OpenRound) THEN {}
    ELSE { NewBlock([Round |-> OpenRound, Randomness |-> rounds[OpenRound].randomness],
                    index, NewFinalizer.notarized[0][1]) :
              index \in BeaconNb..(BeaconNb + BlockMakerNb - 1) }

Noise == Literal("noise")

\* the partial signatures that can arrive with a block: the ones of the other
\* notarizers (broadcast skips the sender), and noise under any index
Partials(b) ==
    { Sign(i, Hash(b)) : i \in (0..(NotarizerNb - 1)) \ {Share} }
        \cup { Sign(i, Noise) : i \in 0..(NotarizerNb - 1) }

\* a NotarizedBlock whose signature is not the threshold signature of its hash
Forged(b) == [Block |-> b, Hash |-> Hash(b), Signature |-> Noise]

\* the NotarizedBlocks that can arrive for a block: the one the notarizers
\* recover, and one with a signature that does not verify
Notarizeds(b) == {NotarizedOf(b), Forged(b)}

\* longest list of early proposals of a round
MaxEarly == 1

\* a faulty NewBlockProposal that also stores the proposal of an earlier round
ReceiveBlockProposalLate(p) ==
    /\ Alive(NotarizerNode)
    /\ IF ~Has(rounds, p.Round)
       THEN /\ Len(Get(nz.tmpBlocks, p.Round)) < MaxEarly
            /\ nz' = [nz EXCEPT !.tmpBlocks =
                         Put(@, p.Round, Append(Get(@, p.Round), p))]
            /\ UNCHANGED <<rounds, panicked>>
       ELSE /\ LET res == StoreBlockProposal(rounds[p.Round], p)
               IN  /\ rounds' = [rounds EXCEPT ![p.Round] = res.r]
                   /\ panicked' = [panicked EXCEPT ![NotarizerNode] = res.panic]
            /\ UNCHANGED nz
    /\ UNCHANGED <<chainVars, fin, handoffs, signed, loops, net, opened, runVars>>

\* Notarizer.Process -> NewBlockProposal: a proposal of a round before the
\* current one is dropped, one whose round has no storage is kept in
\* tmpBlocks, any other goes to roundStorage.StoreBlockProposal
ReceiveBlockProposal(p) ==
    /\ Alive(NotarizerNode)
    /\ IF p.Round < nz.round
       THEN UNCHANGED <<rounds, nz, panicked>>
       ELSE IF ~Has(rounds, p.Round)
       THEN /\ Len(Get(nz.tmpBlocks, p.Round)) < MaxEarly
            /\ nz' = [nz EXCEPT !.tmpBlocks =
                         Put(@, p.Round, Append(Get(@, p.Round), p))]
            /\ UNCHANGED <<rounds, panicked>>
       ELSE /\ LET res == StoreBlockProposal(rounds[p.Round], p)
               IN  /\ rounds' = [rounds EXCEPT ![p.Round] = res.r]
                   /\ panicked' = [panicked EXCEPT ![NotarizerNode] = res.panic]
            /\ UNCHANGED nz
    /\ UNCHANGED <<chainVars, fin, handoffs, signed, loops, net, opened, runVars>>

\* Notarizer.Process -> NewSignatureProposal: a proposal of a later round, or
\* of the current round without storage, is kept in tmpSigs, one of an
\* earlier round is dropped, any other goes to
\* roundStorage.StoreSignatureProposal
ReceiveSignatureProposal(s) ==
    /\ Alive(NotarizerNode)
    /\ IF s.Block.Round > nz.round \/ (s.Block.Round = nz.round /\ ~Has(rounds, nz.round))
       THEN /\ Len(Get(nz.tmpSigs, s.Block.Round)) < MaxEarly
            /\ nz' = [nz EXCEPT !.tmpSigs =
                         Put(@, s.Block.Round, Append(Get(@, s.Block.Round), s))]
            /\ UNCHANGED <<rounds, fin, handoffs, panicked>>
       ELSE IF s.Block.Round < nz.round
       THEN UNCHANGED <<rounds, fin, handoffs, panicked, nz>>
       ELSE /\ LET res == StoreSignatureProposal(rounds[s.Block.Round],
                                                 fin[NotarizerNode], s)
               IN  /\ rounds' = [rounds EXCEPT ![s.Block.Round] = res.r]
                   /\ fin' = [fin EXCEPT ![NotarizerNode] = res.f]
                   /\ handoffs' = handoffs \o res.local
                   /\ panicked' = [panicked EXCEPT ![NotarizerNode] = res.panic]
            /\ UNCHANGED nz
    /\ UNCHANGED <<chainVars, signed, loops, net, opened, runVars>>

\* Notarizer.NewNotarizedBlock: an early block is kept in tmpNot, a block of
\* a round without storage is dropped, any other goes to StoreNotarizedBlock
NewNotarizedBlock(z, rs, f, n) ==
    IF n.Block.Round > z.round
    THEN [nz |-> [z EXCEPT !.tmpNot =
                     Put(@, n.Block.Round, Append(Get(@, n.Block.Round), n))],
          rounds |-> rs, f |-> f]
    ELSE IF ~Has(rs, n.Block.Round) THEN [nz |-> z, rounds |-> rs, f |-> f]
    ELSE LET res == StoreNotarizedBlock(rs[n.Block.Round], f, n)
         IN  [nz |-> z, rounds |-> [rs EXCEPT ![n.Block.Round] = res.r], f |-> res.f]

\* Dfinity.Process at the node of the notarizer for a NotarizedBlock: the node
\* has no beacon, no block maker and no finalizer of its own (AttachCallback
\* is called on node 0 only), and the case does not call d.not.Process: the
\* message is consumed and nothing changes
ReceiveNotarizedBlock(n) ==
    /\ Alive(NotarizerNode)
    /\ n \notin net.delivered
    /\ net' = [net EXCEPT !.delivered = @ \cup {n}]
    /\ UNCHANGED <<chainVars, fin, panicked, rounds, handoffs, signed, loops, nz,
                   opened, runVars>>

\* the early notarized blocks of a round go to StoreNotarizedBlock, in order
RECURSIVE StoreAll(_, _, _)
StoreAll(r, f, nots) ==
    IF nots = <<>> THEN [r |-> r, f |-> f]
    ELSE LET st == StoreNotarizedBlock(r, f, Head(nots))
         IN  StoreAll(st.r, st.f, Tail(nots))

\* the early block proposals of a round go to StoreBlockProposal, in order
RECURSIVE StoreBlocks(_, _)
StoreBlocks(r, bps) ==
    IF bps = <<>> THEN [panic |-> "", r |-> r]
    ELSE LET st == StoreBlockProposal(r, Head(bps))
         IN  IF st.panic # "" THEN st ELSE StoreBlocks(st.r, Tail(bps))

\* the early signature proposals of a round go to StoreSignatureProposal, in
\* order
RECURSIVE StoreSigs(_, _, _)
StoreSigs(r, f, sigs) ==
    IF sigs = <<>> THEN [panic |-> "", r |-> r, f |-> f, local |-> Nil]
    ELSE LET st == StoreSignatureProposal(r, f, Head(sigs))
         IN  IF st.panic # "" THEN st
             ELSE LET rest == StoreSigs(st.r, st.f, Tail(sigs))
                  IN  [rest EXCEPT !.local = st.local \o @]

\* the first part of condition() in roundLoop: the early notarized blocks of
\* the round are stored, and with none of them the early block proposals and
\* then the early signature proposals; the lists stay in the maps
StoreEarly(z, r, f, round) ==
    IF Get(z.tmpNot, round) # <<>>
    THEN LET st == StoreAll(r, f, z.tmpNot[round])
         IN  [panic |-> "", r |-> st.r, f |-> st.f, local |-> Nil]
    ELSE LET bs == StoreBlocks(r, Get(z.tmpBlocks, round))
         IN  IF bs.panic # "" THEN [panic |-> bs.panic, r |-> bs.r, f |-> f, local |-> Nil]
             ELSE StoreSigs(bs.r, f, Get(z.tmpSigs, round))

\* the last signature proposal the loop of a round got from HighestSignature
LastSigned(round) ==
    LET own == {i \in 1..Len(signed) : signed[i].Block.Round = round}
    IN  IF own = {} THEN Nil
        ELSE Some(signed[CHOOSE i \in own : \A j \in own : j <= i])

\* Notarizer.roundLoop of a round: from the end of the sleep, or from a
\* wake-up in Wait, one pass under the lock: condition(), then the end of the
\* pass, the next Wait or the return with the deferred Unlock. With no
\* storage left or the notarizer in a later round (quit without data), and
\* with nothing to sign, the loop waits. A notarized block found is broadcast
\* to the roster and the loop returns; otherwise the signature proposal is
\* broadcast to the notarizers.
roundLoop(round) ==
    /\ Alive(NotarizerNode) /\ loops[round] \in {"sleep", "run", "signed"}
    /\ IF ~Has(rounds, round)
       THEN /\ loops[round] = "sleep"
            /\ panicked' = [panicked EXCEPT ![NotarizerNode] = "that should never happen"]
            /\ loops' = [loops EXCEPT ![round] = "exit"]
            /\ UNCHANGED <<rounds, fin, handoffs, signed, net>>
       ELSE IF round # nz.round
       THEN /\ loops[round] = "sleep"
            /\ loops' = [loops EXCEPT ![round] = "run"]
            /\ UNCHANGED <<rounds, fin, handoffs, signed, panicked, net>>
       ELSE \E early \in {StoreEarly(nz, rounds[round], fin[NotarizerNode], round)} :
            LET r == early.r
                f == early.f
            IN  IF early.panic # ""
                THEN /\ rounds' = [rounds EXCEPT ![round] = r]
                     /\ panicked' = [panicked EXCEPT ![NotarizerNode] = early.panic]
                     /\ loops' = [loops EXCEPT ![round] = "exit"]
                     /\ UNCHANGED <<fin, handoffs, signed, net>>
                ELSE IF IsNotarized(r)
                THEN \E hn \in {HighestNotarizedBlock(r)} :
                         /\ rounds' = [rounds EXCEPT ![round] = hn.r]
                         /\ fin' = [fin EXCEPT ![NotarizerNode] = f]
                         /\ handoffs' = handoffs \o early.local
                         /\ loops' = [loops EXCEPT ![round] = "exit"]
                         /\ panicked' = [panicked EXCEPT ![NotarizerNode] =
                               IF hn.ret = Nil /\ loops[round] # "signed"
                               THEN "that should never happen" ELSE ""]
                         /\ net' = IF hn.ret # Nil
                                   THEN [net EXCEPT !.notarized = @ \o hn.ret]
                                   ELSE [net EXCEPT !.proposals =
                                            @ \o (IF loops[round] = "signed"
                                                  THEN LastSigned(round) ELSE Nil)]
                         /\ UNCHANGED signed
                ELSE \E hs \in {HighestSignature(r, f, Share)} :
                     \E hn \in {HighestNotarizedBlock(hs.r)} :
                         IF hs.ret = Nil
                         THEN /\ rounds' = [rounds EXCEPT ![round] = r]
                              /\ loops' = [loops EXCEPT ![round] = "run"]
                              /\ UNCHANGED <<fin, handoffs, signed, panicked, net>>
                         ELSE /\ rounds' = [rounds EXCEPT ![round] = hn.r]
                              /\ fin' = [fin EXCEPT ![NotarizerNode] = hs.f]
                              /\ handoffs' = handoffs \o hs.local
                              /\ signed' = signed \o hs.ret
                              /\ loops' = [loops EXCEPT ![round] =
                                              IF hn.ret # Nil THEN "exit" ELSE "signed"]
                              /\ panicked' = [panicked EXCEPT ![NotarizerNode] = hs.panic]
                              /\ net' = IF hn.ret # Nil
                                        THEN [net EXCEPT !.notarized = @ \o hn.ret]
                                        ELSE [net EXCEPT !.proposals = @ \o hs.ret]
    /\ UNCHANGED <<chainVars, nz, opened, runVars>>

\* the deferred function of roundLoop: the beacon kept for the next round
\* goes to NewRound and leaves tmpBeacon. It is deferred first, so it runs
\* after the deferred Unlock, without the lock that Process and deleteRound
\* hold when they use the same maps: the race either goes unnoticed, or the
\* runtime stops the process on the concurrent map access.
Drain(round) ==
    /\ Alive(NotarizerNode) /\ loops[round] = "exit"
    /\ \/ LET nr == IF Has(nz.tmpBeacon, round + 1)
                     THEN NotarizerNewRound(nz, rounds, nz.tmpBeacon[round + 1])
                     ELSE [nz |-> nz, rounds |-> rounds, spawned |-> FALSE]
          IN  /\ nz' = [nr.nz EXCEPT !.tmpBeacon = Del(@, round + 1)]
              /\ rounds' = nr.rounds
              /\ loops' = IF nr.spawned
                          THEN Put([loops EXCEPT ![round] = "done"], nr.nz.round, "sleep")
                          ELSE [loops EXCEPT ![round] = "done"]
              /\ opened' = IF nr.spawned THEN Append(opened, nr.nz.round) ELSE opened
              /\ UNCHANGED panicked
       \/ /\ panicked' = [panicked EXCEPT ![NotarizerNode] = "concurrent map writes"]
          /\ loops' = [loops EXCEPT ![round] = "done"]
          /\ UNCHANGED <<nz, rounds, opened>>
    /\ UNCHANGED <<chainVars, fin, handoffs, signed, net, runVars>>

\* a finalize goroutine of the notarizer wakes up and runs to the Unlock
FinalizeLocked(node, i) ==
    /\ Alive(node)
    /\ fin[node].routines[i].pc = "sleep"
    /\ LET f == fin[node]
           res == finalize(f, f.routines[i].round)
       IN  fin' = [fin EXCEPT ![node] =
                      [res.f EXCEPT !.routines[i].pc = "done",
                                    !.routines[i].panic = res.panic]]
    /\ UNCHANGED <<chainVars, panicked, notVars>>

\* Notarizer.deleteRound, on the rounds map
deleteRound(rs, round) == Del(rs, round)

\* the deferred done(round) of the notarizer's finalizer: deleteRound, under
\* the notarizer's lock, which also forgets the early beacon and the early
\* proposals of the round; a panicking routine then stops the node
FinalizeDone(node, i) ==
    /\ Alive(node)
    /\ fin[node].routines[i].pc = "done"
    /\ LET r == fin[node].routines[i]
       IN  /\ fin' = [fin EXCEPT ![node].routines = RemoveAt(@, i),
                                 ![node].doneLog = Append(@, r.round)]
           /\ rounds' = deleteRound(rounds, r.round)
           /\ nz' = [nz EXCEPT !.tmpBeacon = Del(@, r.round),
                                !.tmpSigs = Del(@, r.round),
                                !.tmpBlocks = Del(@, r.round)]
           /\ panicked' = [panicked EXCEPT ![node] = r.panic]
    /\ UNCHANGED <<chainVars, handoffs, signed, loops, net, opened, runVars>>

\* this notarizer has broadcast its partial signature of a block: with
\* Threshold = NotarizerNb the other notarizers can then recover its
\* notarized block
Recovered(b) == \E i \in 1..Len(net.proposals) : net.proposals[i].Block = b

RoundNext ==
    \/ \E p \in Proposals : ReceiveBlockProposal(p)
    \/ \E p \in Proposals : \E sig \in Partials(p) :
          ReceiveSignatureProposal([Block |-> p, Partial |-> sig])
    \/ \E p \in Proposals : Recovered(p) /\ ReceiveNotarizedBlock(NotarizedOf(p))
    \/ \E round \in DOMAIN loops : roundLoop(round)
    \/ \E round \in DOMAIN loops : Drain(round)
    \/ \E i \in 1..Len(fin[NotarizerNode].routines) : FinalizeLocked(NotarizerNode, i)
    \/ \E i \in 1..Len(fin[NotarizerNode].routines) : FinalizeDone(NotarizerNode, i)

RoundSpec == RoundInit /\ [][RoundNext]_vars

(***************************************************************************)
(* QuorumSpec: the same round of the notarizer, in a network configured    *)
(* with any threshold up to the number of notarizers.                      *)
(***************************************************************************)
QuorumInit ==
    /\ conf \in {[TestConfig EXCEPT !.Threshold = t] : t \in 1..NotarizerNb}
    /\ tasks = <<>>
    /\ locks = NoLocks
    /\ beacon = NewBeaconProcess
    /\ packets = {}
    /\ produced = {}
    /\ fin = [n \in FinNodes |-> NewFinalizer]
    /\ panicked = [n \in FinNodes |-> ""]
    /\ \E randomness \in 0..(RandSpace - 1) :
          LET nr == NotarizerNewRound(NewNotarizerProcess, <<>>,
                                      [Round |-> OpenRound, Randomness |-> randomness])
          IN  nz = nr.nz /\ rounds = nr.rounds
    /\ handoffs = <<>>
    /\ signed = <<>>
    /\ loops = (OpenRound :> "sleep")
    /\ net = NoMessages
    /\ opened = <<OpenRound>>

QuorumSpec == QuorumInit /\ [][RoundNext]_vars

(***************************************************************************)
(* OrderSpec: a notarizer that receives the beacon packets of the first    *)
(* rounds out of order, and the block of each round with the partial       *)
(* signatures of the other notarizers; every goroutine is eventually       *)
(* scheduled and every message eventually delivered.                       *)
(***************************************************************************)
\* the rounds the beacon sends a packet for
MaxBeacons == 4

\* the arrival orders of the packets: one packet overtakes the one before it
Orders ==
    {[i \in 1..MaxBeacons |-> IF i = k THEN k + 1 ELSE IF i = k + 1 THEN k ELSE i] :
        k \in 1..(MaxBeacons - 1)}

\* the packet the beacon sends for a round
PacketOf(round) == BeaconPacket([round |-> round, draws |-> round])

\* the notarized block of a round: the block of the first block maker on top
\* of the notarized block of the round before
RECURSIVE Notarized(_)
Notarized(round) ==
    IF round = 0 THEN NewFinalizer.notarized[0][1]
    ELSE NotarizedOf(NewBlock(PacketOf(round), BeaconNb, Notarized(round - 1)))

\* the notarized blocks of the rounds, by round
ChainBlock == [round \in 0..MaxBeacons |-> Notarized(round)]

OrderInit ==
    /\ tasks = <<>>
    /\ conf = TestConfig
    /\ locks = NoLocks
    /\ beacon = NewBeaconProcess
    /\ packets = {}
    /\ produced = {}
    /\ fin = [n \in FinNodes |-> NewFinalizer]
    /\ panicked = [n \in FinNodes |-> ""]
    /\ rounds = <<>>
    /\ handoffs = <<>>
    /\ signed = <<>>
    /\ loops = <<>>
    /\ nz = NewNotarizerProcess
    /\ \E o \in Orders : net = [NoMessages EXCEPT !.order = o, !.beacons = o]
    /\ opened = <<>>

\* Notarizer.Process for the next BeaconPacket: NewRound
ReceiveBeacon ==
    /\ Alive(NotarizerNode)
    /\ net.beacons # <<>>
    /\ LET nr == NotarizerNewRound(nz, rounds, PacketOf(Head(net.beacons)))
       IN  /\ nz' = nr.nz
           /\ rounds' = nr.rounds
           /\ loops' = IF nr.spawned THEN Put(loops, nr.nz.round, "sleep") ELSE loops
           /\ opened' = IF nr.spawned THEN Append(opened, nr.nz.round) ELSE opened
    /\ net' = [net EXCEPT !.beacons = Tail(@)]
    /\ UNCHANGED <<chainVars, fin, panicked, handoffs, signed, runVars>>

\* the messages of the network that reach the notarizer: the beacon packets,
\* the block of the current round and, once the notarizer has broadcast its
\* own partial signature of it, the partial signatures of the other
\* notarizers, in the order of their shares
Deliver ==
    \/ ReceiveBeacon
    \/ nz.round >= 1 /\ ReceiveBlockProposal(ChainBlock[nz.round].Block)
    \/ /\ Has(rounds, nz.round)
       /\ Recovered(ChainBlock[nz.round].Block)
       /\ \E i \in (0..(NotarizerNb - 1)) \ {Share} :
             LET sigs == rounds[nz.round].blocks[ChainBlock[nz.round].Hash].sigs
             IN  /\ \A j \in 0..(i - 1) : j \in DOMAIN sigs
                 /\ i \notin DOMAIN sigs
                 /\ ReceiveSignatureProposal([Block |-> ChainBlock[nz.round].Block,
                                              Partial |-> Sign(i, ChainBlock[nz.round].Hash)])

\* the round loops of the notarizer and their deferred calls
RoundLoops ==
    \/ \E round \in DOMAIN loops : roundLoop(round)
    \/ \E round \in DOMAIN loops : Drain(round)

\* the finalize routines of the notarizer and their deferred calls
Finalizers ==
    \/ \E i \in 1..Len(fin[NotarizerNode].routines) : FinalizeLocked(NotarizerNode, i)
    \/ \E i \in 1..Len(fin[NotarizerNode].routines) : FinalizeDone(NotarizerNode, i)

OrderNext == Deliver \/ RoundLoops \/ Finalizers

\* every step adds to a log, moves a goroutine forward or consumes a message,
\* so no behaviour cycles: a message, a round loop or a finalize routine that
\* can take a step eventually has one taken
OrderSpec ==
    /\ OrderInit /\ [][OrderNext]_vars
    /\ WF_vars(Deliver) /\ WF_vars(RoundLoops) /\ WF_vars(Finalizers)

(***************************************************************************)
(* EarlySpec: a notarizer that receives the beacon packets of the first    *)
(* rounds in any order, and the block of each round and the partial        *)
(* signatures of the other notarizers on it at any time: before the round  *)
(* is open, while it is, and after it.                                     *)
(***************************************************************************)
\* the rounds whose messages arrive
EarlyRounds == 2

\* the arrival orders of the beacon packets
EarlyOrders == {<<1, 2>>, <<2, 1>>}

EarlyInit ==
    /\ tasks = <<>>
    /\ conf = TestConfig
    /\ locks = NoLocks
    /\ beacon = NewBeaconProcess
    /\ packets = {}
    /\ produced = {}
    /\ fin = [n \in FinNodes |-> NewFinalizer]
    /\ panicked = [n \in FinNodes |-> ""]
    /\ rounds = <<>>
    /\ handoffs = <<>>
    /\ signed = <<>>
    /\ loops = <<>>
    /\ nz = NewNotarizerProcess
    /\ \E o \in EarlyOrders : net = [NoMessages EXCEPT !.order = o, !.beacons = o]
    /\ opened = <<>>

\* the block proposals that arrive
EarlyBlocks == {ChainBlock[round].Block : round \in 1..EarlyRounds}

\* the signature proposals of the other notarizers that arrive
EarlySigs ==
    {[Block |-> b, Partial |-> Sign(i, Hash(b))] :
        b \in EarlyBlocks, i \in (0..(NotarizerNb - 1)) \ {Share}}

EarlyNext ==
    \/ ReceiveBeacon
    \/ \E p \in EarlyBlocks : ReceiveBlockProposal(p)
    \/ \E s \in EarlySigs : ReceiveSignatureProposal(s)
    \/ \E round \in DOMAIN loops : roundLoop(round)
    \/ \E round \in DOMAIN loops : Drain(round)
    \/ \E i \in 1..Len(fin[NotarizerNode].routines) : FinalizeLocked(NotarizerNode, i)
    \/ \E i \in 1..Len(fin[NotarizerNode].routines) : FinalizeDone(NotarizerNode, i)

EarlySpec == EarlyInit /\ [][EarlyNext]_vars

(***************************************************************************)
(* ForgedSpec: node 0 and the network, where a sender also broadcasts a    *)
(* copy of a NotarizedBlock with a signature that does not verify.         *)
(***************************************************************************)
ForgedNext ==
    \/ Start
    \/ \E n \in produced : \E m \in Notarizeds(n.Block) : Process(m)
    \/ Network(LiveRounds, BlockMakerNb * LiveRounds + 1)
    \/ FinalizeAt(CallbackNode)

ForgedSpec == Init /\ [][ForgedNext]_vars

(***************************************************************************)
(* LockSpec: the goroutines of a notarizer node seen at their mutexes: the *)
(* Process handlers, the round loops and the finalize routines. A step    *)
(* takes or releases Notarizer.Cond.L (L) or the Finalizer's mutex (F);    *)
(* what the data decides in the code (which branch a handler takes,        *)
(* whether a call stores a notarized block, whether a round opens) is left *)
(* open here.                                                              *)
(***************************************************************************)
\* concurrent calls of Process, and rounds with a round loop and a routine
MaxHandlers == 2
LockRounds == 2

Handler(k) == <<"Process", k>>
Loop(r) == <<"roundLoop", r>>
Routine(r) == <<"finalize", r>>

dataVars == <<chainVars, fin, panicked, rounds, handoffs, signed, loops, nz, net,
              opened, tasks, conf>>

LockInit ==
    /\ tasks = <<>>
    /\ conf = TestConfig
    /\ locks = [NoLocks EXCEPT !.pc = [g \in {Handler(k) : k \in 1..MaxHandlers} |-> "idle"]]
    /\ beacon = NewBeaconProcess
    /\ packets = {}
    /\ produced = {}
    /\ fin = [n \in FinNodes |-> NewFinalizer]
    /\ panicked = [n \in FinNodes |-> ""]
    /\ rounds = <<>>
    /\ handoffs = <<>>
    /\ signed = <<>>
    /\ loops = <<>>
    /\ nz = NewNotarizerProcess
    /\ net = NoMessages
    /\ opened = <<>>

At(g, pc) == g \in DOMAIN locks.pc /\ locks.pc[g] = pc

\* go m.roundLoop(b.Round) in Notarizer.NewRound, and go f.finalize(f.round)
\* in Finalizer.Store: the goroutine of the next round, if the call starts one
Spawn(pcs, g, pc, starts) == IF starts /\ g \notin DOMAIN pcs THEN Put(pcs, g, pc) ELSE pcs

NextLoop == Loop(Cardinality({r \in 1..LockRounds : Loop(r) \in DOMAIN locks.pc}) + 1)
NextRoutine == Routine(Cardinality({r \in 1..LockRounds : Routine(r) \in DOMAIN locks.pc}) + 1)
InBounds(g) == g[2] <= LockRounds

\* sync.Cond.Broadcast on the notarizer's condition variable
Wake(pcs) == [g \in DOMAIN pcs |-> IF pcs[g] = "wait" THEN "woken" ELSE pcs[g]]

\* Notarizer.Process: m.Cond.L.Lock()
ProcessLock(h) ==
    /\ At(h, "idle") /\ locks.L = Nil
    /\ locks' = [locks EXCEPT !.L = h, !.pc[h] = "locked"]
    /\ UNCHANGED dataVars

\* Notarizer.Process: a handler on its way into Finalizer.Store, through
\* NewSignatureProposal, StoreSignatureProposal and StoreNotarizedBlock
ProcessStore(h) ==
    /\ At(h, "locked") /\ h[1] = "Process"
    /\ locks' = [locks EXCEPT !.pc[h] = "store"]
    /\ UNCHANGED dataVars

\* Notarizer.Process: the end of the handler, where NewRound may have started
\* the round loop of the next round: the deferred Broadcast and Unlock
ProcessReturn(h, starts) ==
    /\ At(h, "locked") /\ h[1] = "Process"
    /\ locks' = [locks EXCEPT !.L = Nil,
                              !.pc = Wake(Spawn([@ EXCEPT ![h] = "idle"], NextLoop, "sleep",
                                                starts /\ InBounds(NextLoop)))]
    /\ UNCHANGED dataVars

\* Finalizer.Store: f.Lock()
StoreLock(g) ==
    /\ At(g, "store") /\ locks.F = Nil
    /\ locks' = [locks EXCEPT !.F = g, !.pc[g] = "stored"]
    /\ UNCHANGED dataVars

\* Finalizer.Store: the deferred f.Unlock(), after go f.finalize(f.round) if
\* the block was the first of the cursor's round; back in the caller
StoreUnlock(g, starts) ==
    /\ At(g, "stored")
    /\ locks' = [locks EXCEPT !.F = Nil,
                              !.pc = Spawn([@ EXCEPT ![g] = "locked"], NextRoutine, "timer",
                                           starts /\ InBounds(NextRoutine))]
    /\ UNCHANGED dataVars

\* Notarizer.roundLoop: m.Cond.L.Lock() after the sleep, or at the return
\* of Wait
LoopLock(l) ==
    /\ (At(l, "sleep") \/ At(l, "woken")) /\ locks.L = Nil
    /\ locks' = [locks EXCEPT !.L = l, !.pc[l] = "locked"]
    /\ UNCHANGED dataVars

\* Notarizer.roundLoop: condition() on its way into Finalizer.Store, through
\* StoreSignatureProposal or HighestSignature
LoopStore(l) ==
    /\ At(l, "locked") /\ l[1] = "roundLoop"
    /\ locks' = [locks EXCEPT !.pc[l] = "store"]
    /\ UNCHANGED dataVars

\* Notarizer.roundLoop: m.Cond.Wait(), which releases Cond.L
LoopWait(l) ==
    /\ At(l, "locked") /\ l[1] = "roundLoop"
    /\ locks' = [locks EXCEPT !.L = Nil, !.pc[l] = "wait"]
    /\ UNCHANGED dataVars

\* Notarizer.roundLoop: return or panic; the deferred Unlock runs, the
\* function deferred first is still to run
LoopReturn(l) ==
    /\ At(l, "locked") /\ l[1] = "roundLoop"
    /\ locks' = [locks EXCEPT !.L = Nil, !.pc[l] = "unlocked"]
    /\ UNCHANGED dataVars

\* the function roundLoop deferred first starts: it reads m.tmpBeacon
DrainBegin(l) ==
    /\ At(l, "unlocked")
    /\ locks' = [locks EXCEPT !.pc[l] = "drain"]
    /\ UNCHANGED dataVars

\* and ends: m.NewRound(b) may have opened the next round and started its
\* loop, and the entry of m.tmpBeacon is deleted
DrainEnd(l, starts) ==
    /\ At(l, "drain")
    /\ locks' = [locks EXCEPT !.pc = Spawn([@ EXCEPT ![l] = "done"], NextLoop, "sleep",
                                           starts /\ InBounds(NextLoop))]
    /\ UNCHANGED dataVars

\* Finalizer.finalize: f.Lock() after the sleep
FinalizeLock(r) ==
    /\ At(r, "timer") /\ locks.F = Nil
    /\ locks' = [locks EXCEPT !.F = r, !.pc[r] = "final"]
    /\ UNCHANGED dataVars

\* a faulty finalize that calls done(round) before it unlocks
FinalizeDoneLocked(r) ==
    /\ At(r, "final")
    /\ locks' = [locks EXCEPT !.pc[r] = "done"]
    /\ UNCHANGED dataVars

\* Finalizer.finalize: return or panic; the deferred f.Unlock() runs, the
\* call of done(round), deferred first, is still to run
FinalizeUnlock(r) ==
    /\ At(r, "final")
    /\ locks' = [locks EXCEPT !.F = Nil, !.pc[r] = "done"]
    /\ UNCHANGED dataVars

\* done(round) = Notarizer.deleteRound: n.Cond.L.Lock()
DeleteRoundLock(r) ==
    /\ At(r, "done") /\ locks.L = Nil
    /\ locks' = [locks EXCEPT !.L = r, !.pc[r] = "delete"]
    /\ UNCHANGED dataVars

\* Notarizer.deleteRound: the deletions and the deferred Unlock
DeleteRoundUnlock(r) ==
    /\ At(r, "delete")
    /\ locks' = [locks EXCEPT !.L = Nil, !.pc[r] = "end"]
    /\ UNCHANGED dataVars

Handlers == {Handler(k) : k \in 1..MaxHandlers}
RoundLoopsAt == {Loop(r) : r \in 1..LockRounds}
Routines == {Routine(r) : r \in 1..LockRounds}

LockNext ==
    \/ \E h \in Handlers : ProcessLock(h)
    \/ \E h \in Handlers : ProcessStore(h)
    \/ \E h \in Handlers : \E starts \in BOOLEAN : ProcessReturn(h, starts)
    \/ \E g \in Handlers \cup RoundLoopsAt : StoreLock(g)
    \/ \E g \in Handlers \cup RoundLoopsAt : \E starts \in BOOLEAN : StoreUnlock(g, starts)
    \/ \E l \in RoundLoopsAt : LoopLock(l)
    \/ \E l \in RoundLoopsAt : LoopStore(l)
    \/ \E l \in RoundLoopsAt : LoopWait(l)
    \/ \E l \in RoundLoopsAt : LoopReturn(l)
    \/ \E l \in RoundLoopsAt : DrainBegin(l)
    \/ \E l \in RoundLoopsAt : \E starts \in BOOLEAN : DrainEnd(l, starts)
    \/ \E r \in Routines : FinalizeLock(r)
    \/ \E r \in Routines : FinalizeUnlock(r)
    \/ \E r \in Routines : DeleteRoundLock(r)
    \/ \E r \in Routines : DeleteRoundUnlock(r)

LockSpec == LockInit /\ [][LockNext]_vars

(***************************************************************************)
(* The finalized chain (Spec, PairSpec, FairSpec).                         *)
(***************************************************************************)
Range(s) == {s[i] : i \in 1..Len(s)}
Max(a, b) == IF a > b THEN a ELSE b

Linked(chain) == \A i \in 2..Len(chain) : chain[i].PrvHash = Hash(chain[i - 1])

\* C1: in every reachable state the finalized chain of node 0 is linked by
\* PrvHash, and finalize never hands Chain.Append a block that breaks the link
\* (the PrvHash check of Append never fails).
C1_ChainLinkedAppendNeverFails ==
    /\ Linked(fin[CallbackNode].chain)
    /\ panicked[CallbackNode] # "Append: that should never happen"

\* C2: agreement: of the chains of node 0 and of the block maker, one is a
\* prefix of the other in every reachable state.
C2_Agreement ==
    \/ IsPrefix(fin[CallbackNode].chain, fin[BlockMakerNode].chain)
    \/ IsPrefix(fin[BlockMakerNode].chain, fin[CallbackNode].chain)

\* C3: progress: once the beacon is started, the callback of node 0 is
\* eventually invoked for every round the network notarizes blocks for.
C3_Progress ==
    \A r \in 1..LiveRounds : <>(r \in Range(fin[CallbackNode].doneLog))

\* C4: finalization lag: with cursor c the chain has length max(0, c - 2), its
\* i-th block is the block of round i (genesis first), and the notarized map
\* holds no round below c - 2.
C4_FinalizationLag ==
    LET f == fin[CallbackNode]
    IN  /\ Len(f.chain) = Max(0, f.round - 2)
        /\ \A i \in 1..Len(f.chain) : f.chain[i].Round = i - 1
        /\ \A r \in DOMAIN f.notarized : r >= f.round - 2

C4_Witness ==
    /\ fin[CallbackNode].round = 4
    /\ Len(fin[CallbackNode].chain) = 2
    /\ fin[CallbackNode].chain[2].Round = 1

\* the finalizer holds, or has finalized, a notarized block of every round 1..k
StoredUpTo(f, k) ==
    \A r \in 1..k : Has(f.notarized, r) \/ \E i \in 1..Len(f.chain) : f.chain[i].Round = r

\* C5: finalizer liveness: once a notarized block of each round 1..k is stored,
\* the cursor eventually reaches k + 1, whatever the interleaving of the Store
\* calls with the finalize timers.
C5_FinalizerLiveness ==
    \A k \in 1..LiveRounds :
        StoredUpTo(fin[CallbackNode], k) ~> (fin[CallbackNode].round >= k + 1)

\* C6: the chain is append-only: every step leaves the chain as it is or
\* extends it.
C6_AppendOnly ==
    [][IsPrefix(fin[CallbackNode].chain, fin'[CallbackNode].chain)]_vars

C6_Witness ==
    /\ Len(fin[CallbackNode].chain) = 3
    /\ fin[CallbackNode].chain[1] = GenesisBlock

\* the blocks of a slice of notarized blocks have pairwise different hashes
DistinctHashes(blocks) ==
    \A i, j \in 1..Len(blocks) :
        Hash(blocks[i].Block) = Hash(blocks[j].Block) => i = j

\* C7: Store is idempotent: storing a notarized block a second time leaves the
\* finalizer (notarized map, cursor, started finalize routines) as the first
\* Store left it; no round of the notarized map holds two blocks with the same
\* header hash and no block is in the chain twice.
C7_StoreIdempotent ==
    LET f == fin[CallbackNode]
    IN  /\ \A n \in produced : Store(Store(f, n), n) = Store(f, n)
        /\ \A r \in DOMAIN f.notarized : DistinctHashes(f.notarized[r])
        /\ \A i, j \in 1..Len(f.chain) : f.chain[i] = f.chain[j] => i = j

\* past the first finalized blocks, one notarized block is held by the
\* finalizer (a second Store of it finds its hash) and another one is not yet
C7_Witness ==
    LET f == fin[CallbackNode]
    IN  /\ Len(f.chain) >= 1
        /\ \E n \in produced :
              n.Block.Round >= f.round /\ n \in Range(Get(f.notarized, n.Block.Round))
        /\ \E n \in produced :
              n.Block.Round >= f.round /\ n \notin Range(Get(f.notarized, n.Block.Round))

(***************************************************************************)
(* Notarization of a block (RoundSpec).                                    *)
(***************************************************************************)
\* the blockStorages of the open round: hash -> blockStorage
Blocks == IF Has(rounds, OpenRound) THEN rounds[OpenRound].blocks ELSE <<>>

\* the number of signer indices holding a valid partial of the block
Count(b) ==
    Cardinality({i \in DOMAIN b.sigs :
                    Verify(Hash(b.block), b.sigs[i]) /\ Index(b.sigs[i]) = i})

\* C8: AddPartialSig returns the NotarizedBlock, and marks the block
\* notarized, exactly on the call that takes the number of signer indices
\* holding a valid partial from below Threshold to Threshold; any other call
\* returns no block and leaves the flag as it is; a valid partial of a signer
\* already recorded leaves the count as it is and is no error. So a block is
\* notarized exactly when Threshold indices hold a valid partial, and exactly
\* then it has been handed off.
C8_NotarizedAtThreshold ==
    \A h \in DOMAIN Blocks :
        LET b == Blocks[h]
        IN  /\ b.notarized <=> Count(b) >= Threshold
            /\ Count(b) = Cardinality(DOMAIN b.sigs)
            /\ b.notarized <=> NotarizedOf(b.block) \in Range(handoffs)
            /\ \A s \in Partials(b.block) :
                  LET res == AddPartialSig(b, s)
                  IN  /\ res.notarized # Nil
                           <=> (Count(b) < Threshold /\ Count(res.b) >= Threshold)
                      /\ res.notarized # Nil
                           => res.b.notarized /\ res.notarized = Some(NotarizedOf(b.block))
                      /\ res.notarized = Nil => res.b.notarized = b.notarized
                      /\ Verify(Hash(b.block), s) /\ Index(s) \in DOMAIN b.sigs
                           => Count(res.b) = Count(b) /\ res.err = ""

\* one block notarized by the Threshold-th partial, another one partial short
C8_Witness ==
    /\ \E h \in DOMAIN Blocks : Blocks[h].notarized /\ Count(Blocks[h]) = Threshold
    /\ \E h \in DOMAIN Blocks : ~Blocks[h].notarized /\ Count(Blocks[h]) = Threshold - 1
    /\ Len(handoffs) = 1

\* StoreSignatureProposal with partial s on block p drops the message: no
\* panic, nothing notarized, the notarized list, the watermarks and the
\* finalizer as before, and a known block's storage as before
Dropped(r, f, p, s) ==
    LET st == StoreSignatureProposal(r, f, [Block |-> p, Partial |-> s])
    IN  /\ st.panic = "" /\ st.local = Nil
        /\ st.f = f
        /\ st.r.notarizeds = r.notarizeds
        /\ st.r.maxWeightNotarized = r.maxWeightNotarized
        /\ st.r.maxNotarized = r.maxNotarized
        /\ st.r.maxWeightSig = r.maxWeightSig
        /\ Has(r.blocks, Hash(p)) => st.r = r

NoDuplicates(l) == \A i, j \in 1..Len(l) : l[i] = l[j] => i = j

\* C10: no step clears the notarized flag of a block or changes the
\* signature set of a notarized block; AddPartialSig on a notarized block
\* returns no block and no error and changes nothing; and no block is
\* handed off by local aggregation twice.
C10_NotarizedIsFinal ==
    /\ [](\A h \in DOMAIN Blocks : \A s \in Partials(Blocks[h].block) :
             Blocks[h].notarized =>
                AddPartialSig(Blocks[h], s) =
                    [b |-> Blocks[h], notarized |-> Nil, err |-> ""])
    /\ [](NoDuplicates(handoffs))
    /\ [][\A h \in DOMAIN Blocks :
             Blocks[h].notarized /\ Has(rounds', OpenRound) =>
                /\ Has(rounds'[OpenRound].blocks, h)
                /\ rounds'[OpenRound].blocks[h].notarized
                /\ rounds'[OpenRound].blocks[h].sigs = Blocks[h].sigs]_vars

\* a block notarized by local aggregation has reached the finalizer, which
\* finalized its round, and the storage of the round is still there
C10_Witness ==
    /\ \E h \in DOMAIN Blocks :
          /\ Blocks[h].notarized
          /\ handoffs = <<NotarizedOf(Blocks[h].block)>>
    /\ fin[NotarizerNode].round = OpenRound + 1

(***************************************************************************)
(* The round storage (RoundSpec).                                          *)
(***************************************************************************)
\* the notarization of n is the threshold signature of the hash of its block,
\* which only Threshold valid partials of different shares recover
Backed(n) == n.Hash = Hash(n.Block) /\ n.Signature = Recover(Hash(n.Block))

\* C11: every NotarizedBlock of a round above 0 in the notarized list of a
\* round storage or in the notarized map of a finalizer is backed by
\* Threshold valid partials on its header hash: a NotarizedBlock from the
\* network whose signature does not verify is never stored.
C11_StoredNotarizedAreBacked ==
    /\ \A round \in DOMAIN rounds :
          \A n \in Range(rounds[round].notarizeds) : Backed(n)
    /\ \A node \in FinNodes : \A r \in DOMAIN fin[node].notarized :
          r > 0 => \A n \in Range(fin[node].notarized[r]) : Backed(n)

\* C12: StoreSignatureProposal is idempotent: a second call with the same
\* SignatureProposal leaves the round storage (known blocks, signature sets,
\* notarized list) and the finalizer as the first call left them, and hands
\* nothing more to the finalizer.
C12_StoreSignatureProposalIdempotent ==
    \A p \in Proposals : \A s \in Partials(p) :
        LET sp == [Block |-> p, Partial |-> s]
            once == StoreSignatureProposal(rounds[OpenRound], fin[NotarizerNode], sp)
            twice == StoreSignatureProposal(once.r, once.f, sp)
        IN  twice.r = once.r /\ twice.f = once.f /\ twice.local = Nil

\* C13: StoreBlockProposal is idempotent: a second call with the same
\* proposal changes nothing, and a proposal whose hash is known leaves the
\* round storage, with the partials collected for the block, as it is.
C13_StoreBlockProposalIdempotent ==
    \A p \in Proposals :
        LET r == rounds[OpenRound]
            once == StoreBlockProposal(r, p)
        IN  /\ once.panic = ""
            /\ StoreBlockProposal(once.r, p) = once
            /\ Has(once.r.blocks, Hash(p)) /\ once.r.blocks[Hash(p)].block = p
            /\ Has(r.blocks, Hash(p)) => once.r = r

\* one proposal is known and has a partial, the other one is not known yet
C13_Witness ==
    /\ \E p \in Proposals :
          Has(Blocks, Hash(p)) /\ Cardinality(DOMAIN Blocks[Hash(p)].sigs) = 1
    /\ \E p \in Proposals : ~Has(Blocks, Hash(p))

\* C14: HighestNotarizedBlock returns a stored notarized block of the
\* greatest owner weight when that weight is above the watermark, and then
\* the watermark is that weight; otherwise it returns nil; a second call
\* with nothing stored in between returns nil.
C14_HighestNotarizedBlock ==
    Has(rounds, OpenRound) =>
        LET r == rounds[OpenRound]
            hn == HighestNotarizedBlock(r)
            ws == {Weight(r, n.Block) : n \in Range(r.notarizeds)}
        IN  /\ hn.ret # Nil <=> \E w \in ws : w > r.maxWeightNotarized
            /\ hn.ret # Nil =>
                  /\ hn.ret[1] \in Range(r.notarizeds)
                  /\ \A w \in ws : w <= Weight(r, hn.ret[1].Block)
                  /\ hn.r.maxWeightNotarized = Weight(r, hn.ret[1].Block)
                  /\ hn.r.maxNotarized = hn.ret
            /\ hn.ret = Nil => hn.r.maxWeightNotarized = r.maxWeightNotarized
            /\ hn.r.notarizeds = r.notarizeds
            /\ HighestNotarizedBlock(hn.r).ret = Nil
            /\ r.maxNotarized # Nil =>
                  /\ Weight(r, r.maxNotarized[1].Block) = r.maxWeightNotarized
                  /\ \A n \in Range(r.notarizeds) :
                        Weight(r, n.Block) > r.maxWeightNotarized
                            => hn.ret # Nil /\ hn.ret # r.maxNotarized

\* the round loop took the heavier of two notarized blocks, stored lighter first
C14_Witness ==
    /\ Has(rounds, OpenRound)
    /\ Len(rounds[OpenRound].notarizeds) = 2
    /\ Weight(rounds[OpenRound], rounds[OpenRound].notarizeds[1].Block)
          < Weight(rounds[OpenRound], rounds[OpenRound].notarizeds[2].Block)
    /\ rounds[OpenRound].maxNotarized = Some(rounds[OpenRound].notarizeds[2])

\* the weight of the owner of block b in the round of b
WeightOf(b) == Weights(BlockMakerNb, b.Randomness)[b.Owner + 1]

\* C15: HighestSignature returns the proposal of this notarizer's partial on
\* the known block of the greatest owner weight when that weight is above
\* maxWeightSig, records the partial in the signature set of the block and
\* raises maxWeightSig to that weight; otherwise it returns nil and changes
\* nothing. The blocks signed in a round have strictly increasing weights, so
\* no block is signed twice.
C15_HighestSignature ==
    /\ Has(rounds, OpenRound) =>
          LET r == rounds[OpenRound]
              f == fin[NotarizerNode]
              hs == HighestSignature(r, f, Share)
          IN  /\ hs.ret # Nil
                    <=> \E h \in DOMAIN r.blocks : WeightOf(r.blocks[h].block) > r.maxWeightSig
              /\ hs.ret # Nil =>
                    LET b == hs.ret[1].Block
                    IN  /\ Has(r.blocks, Hash(b)) /\ r.blocks[Hash(b)].block = b
                        /\ \A h \in DOMAIN r.blocks :
                              WeightOf(r.blocks[h].block) <= WeightOf(b)
                        /\ hs.ret[1].Partial = Sign(Share, Hash(b))
                        /\ hs.r.maxWeightSig = WeightOf(b)
                        /\ Has(hs.r.blocks[Hash(b)].sigs, Share)
                        /\ hs.r.blocks[Hash(b)].sigs[Share] = Sign(Share, Hash(b))
                        /\ hs.panic = ""
              /\ hs.ret = Nil => hs.r = r /\ hs.f = f /\ hs.local = Nil
    /\ \A i, j \in 1..Len(signed) :
          i < j => WeightOf(signed[i].Block) < WeightOf(signed[j].Block)

\* the round loop signed the lighter block and then the heavier one
C15_Witness ==
    /\ Len(signed) = 2
    /\ Has(rounds, OpenRound)
    /\ rounds[OpenRound].maxWeightSig = WeightOf(signed[2].Block)

\* r2 has watermarks at least those of r1
WatermarksKept(r1, r2) ==
    /\ r2.maxWeightNotarized >= r1.maxWeightNotarized
    /\ r2.maxWeightSig >= r1.maxWeightSig

\* C16: no step lowers the cursor of a finalizer or a watermark of the round
\* storage, and none of Store, finalize, StoreBlockProposal,
\* StoreSignatureProposal, StoreNotarizedBlock, HighestNotarizedBlock and
\* HighestSignature, applied in a reachable state, lowers one.
C16_Monotonic ==
    /\ [][\A n \in FinNodes : fin'[n].round >= fin[n].round]_vars
    /\ [][Has(rounds, OpenRound) /\ Has(rounds', OpenRound)
             => WatermarksKept(rounds[OpenRound], rounds'[OpenRound])]_vars
    /\ [](Has(rounds, OpenRound) =>
            LET r == rounds[OpenRound]
                f == fin[NotarizerNode]
            IN  /\ WatermarksKept(r, HighestNotarizedBlock(r).r)
                /\ WatermarksKept(r, HighestSignature(r, f, Share).r)
                /\ HighestSignature(r, f, Share).f.round >= f.round
                /\ \A k \in 1..Len(f.routines) :
                      finalize(f, f.routines[k].round).f.round >= f.round
                /\ \A p \in Proposals :
                      /\ WatermarksKept(r, StoreBlockProposal(r, p).r)
                      /\ \A n \in Notarizeds(p) :
                            /\ WatermarksKept(r, StoreNotarizedBlock(r, f, n).r)
                            /\ StoreNotarizedBlock(r, f, n).f.round >= f.round
                            /\ Store(f, n).round >= f.round
                      /\ \A sig \in Partials(p) :
                            LET st == StoreSignatureProposal(r, f, [Block |-> p, Partial |-> sig])
                            IN  WatermarksKept(r, st.r) /\ st.f.round >= f.round)

\* both watermarks of the round were raised and the finalizer moved on
C16_Witness ==
    /\ Has(rounds, OpenRound)
    /\ rounds[OpenRound].maxWeightNotarized > 0
    /\ rounds[OpenRound].maxWeightSig > 0
    /\ fin[NotarizerNode].round > NewFinalizer.round

\* C17: The rounds of a notarizer open in the order 1, 2, 3, ...: a beacon
\* that arrives ahead of its round is kept in tmpBeacon and admitted when the
\* round loop of the round before completes, so that every round whose
\* beacon was delivered is eventually opened; with the arrival order
\* 1, 3, 2, 4 the rounds 3 and 4 are eventually opened, in that order.
C17_RoundsOpenInOrder ==
    /\ [](\A i \in 1..Len(opened) : opened[i] = i)
    /\ <>(opened = [i \in 1..MaxBeacons |-> i])

\* C18: HighestChainHead(0) returns the genesis block in every reachable
\* state of a Finalizer, whatever rounds have been stored and finalized.
C18_RoundZeroHeadIsGenesis ==
    \A node \in ChainNodes :
        Alive(node) =>
            HighestChainHead(fin[node], 0) =
                [ret |-> Some(NewFinalizer.notarized[0][1]), err |-> "", panic |-> ""]

\* the chain weight of a notarized block held by a finalizer: its own owner
\* weight plus the greatest chain weight among the notarized blocks of the
\* round before that it links to; the genesis block weighs nothing
RECURSIVE ChainWeight(_, _)
ChainWeight(f, n) ==
    IF n.Block.Round = 0 THEN 0
    ELSE LET below == {ChainWeight(f, p) :
                          p \in {q \in Range(Get(f.notarized, n.Block.Round - 1)) :
                                    Hash(q.Block) = n.Block.PrvHash}}
         IN  getWeight(n) + (CHOOSE w \in below \cup {0} : \A v \in below : v <= w)

\* C19: for a round above 0 that has notarized blocks, HighestChainHead
\* returns the block of the round with the greatest chain weight, and among
\* blocks of equal chain weight the one stored first.
C19_HeadHasGreatestChainWeight ==
    \A node \in ChainNodes : \A round \in 1..MaxRound :
        (Alive(node) /\ Len(Get(fin[node].notarized, round)) > 0) =>
            LET f == fin[node]
                blocks == f.notarized[round]
                best == CHOOSE i \in 1..Len(blocks) :
                           \A j \in 1..Len(blocks) :
                              /\ ChainWeight(f, blocks[j]) <= ChainWeight(f, blocks[i])
                              /\ j < i => ChainWeight(f, blocks[j]) < ChainWeight(f, blocks[i])
            IN  HighestChainHead(f, round) =
                    [ret |-> Some(blocks[best]), err |-> "", panic |-> ""]

\* most participants and greatest randomness the weights are computed for
MaxParticipants == 4
MaxRandomness == 5

\* C20: for every randomness and participant count n, Weights is a
\* permutation of 1..n; the weights of an open round are those of its
\* randomness, they are the weights a finalizer computes for the blocks of the
\* round, and they do not change while the round is open.
C20_WeightsArePermutation ==
    /\ [](/\ \A n \in 1..MaxParticipants : \A randomness \in 0..MaxRandomness :
              LET w == Weights(n, randomness)
              IN  /\ DOMAIN w = 1..n
                  /\ {w[i] : i \in 1..n} = 1..n
          /\ \A round \in DOMAIN rounds :
              LET r == rounds[round]
              IN  /\ r.weights = Weights(BlockMakerNb, r.randomness)
                  /\ {r.weights[i] : i \in 1..BlockMakerNb} = 1..BlockMakerNb
                  /\ \A i \in 1..Len(r.notarizeds) :
                        getWeight(r.notarizeds[i]) = Weight(r, r.notarizeds[i].Block))
    /\ [][\A round \in DOMAIN rounds \cap DOMAIN rounds' :
             /\ rounds'[round].weights = rounds[round].weights
             /\ rounds'[round].randomness = rounds[round].randomness]_vars

\* a round is open, this notarizer has signed a block of it and a notarized
\* block of another owner, with another weight, is stored
C20_Witness ==
    /\ Has(rounds, OpenRound)
    /\ \E i \in 1..Len(signed) : \E j \in 1..Len(rounds[OpenRound].notarizeds) :
          LET r == rounds[OpenRound]
          IN  /\ signed[i].Block.Owner # r.notarizeds[j].Block.Owner
              /\ Weight(r, signed[i].Block) # getWeight(r.notarizeds[j])

\* C21: a signature proposal for a block the round storage has not seen
\* records the block without aggregating the partial (a block enters the
\* storage with an empty signature set), and the signature set of a block
\* holds the partial of another signer only if it holds this notarizer's own.
C21_OwnPartialFirst ==
    /\ [](\A round \in DOMAIN rounds : \A h \in DOMAIN rounds[round].blocks :
            DOMAIN rounds[round].blocks[h].sigs # {} =>
                Share \in DOMAIN rounds[round].blocks[h].sigs)
    /\ [][\A round \in DOMAIN rounds \cap DOMAIN rounds' :
             \A h \in DOMAIN rounds'[round].blocks \ DOMAIN rounds[round].blocks :
                DOMAIN rounds'[round].blocks[h].sigs = {}]_vars

\* the beacon packets a notarizer can receive
Beacons == {PacketOf(round) : round \in 1..(EarlyRounds + 1)}

C23_LoopTerminates ==
    \A round \in 1..MaxBeacons :
        (round \in DOMAIN loops /\ (nz.round # round \/ ~Has(rounds, round)))
            ~> ((round \in DOMAIN loops /\ loops[round] = "done")
                   \/ ~Alive(NotarizerNode))

\* C24: a pass of a round loop in which HighestSignature returned a signature
\* proposal broadcasts that proposal to the notarizers, also when storing the
\* notarizer's own partial made the block notarized; the notarized block is
\* then broadcast as well and the loop returns.
C24_SignatureProposalBroadcast ==
    [][Len(signed') > Len(signed) =>
          /\ net'.proposals = Append(net.proposals, signed'[Len(signed')])
          /\ Len(handoffs') > Len(handoffs) =>
                /\ net'.notarized = Append(net.notarized, handoffs'[Len(handoffs')])
                /\ \E round \in DOMAIN loops :
                      loops[round] # "exit" /\ loops'[round] = "exit"]_vars

\* C25: a pass of the round loop of the current round that finds a notarized
\* block in the storage of the round (stored by a handler, taken over from the
\* early lists, or recovered with the notarizer's own partial) broadcasts to
\* the roster the stored notarized block whose owner has the greatest weight
\* and returns; a notarizer broadcasts at most one NotarizedBlock per round.
C25_HighestNotarizedBroadcast ==
    /\ [](\A i, j \in 1..Len(net.notarized) :
             net.notarized[i].Block.Round = net.notarized[j].Block.Round => i = j)
    /\ [][\A round \in DOMAIN loops :
             (/\ roundLoop(round)
              /\ round = nz.round /\ Has(rounds, round)
              /\ IsNotarized(rounds'[round]))
                 => /\ Len(net'.notarized) = Len(net.notarized) + 1
                    /\ SubSeq(net'.notarized, 1, Len(net.notarized)) = net.notarized
                    /\ LET r == rounds'[round]
                           n == net'.notarized[Len(net'.notarized)]
                       IN  /\ n \in Range(r.notarizeds)
                           /\ \A m \in Range(r.notarizeds) :
                                 Weight(r, m.Block) <= Weight(r, n.Block)
                    /\ loops'[round] = "exit"]_vars

\* the storage of the round holds two notarized blocks, the one stored second
\* has the greater weight and is the one that was broadcast
C25_Witness ==
    /\ Has(rounds, OpenRound) /\ Len(rounds[OpenRound].notarizeds) = 2
    /\ net.notarized = <<rounds[OpenRound].notarizeds[2]>>
    /\ loops[OpenRound] \in {"exit", "done"}

\* C26: a BlockProposal or SignatureProposal of a round below the current
\* round of the notarizer is dropped: the rounds map with every round
\* storage, the early lists and the finalizer stay as they are; a proposal of
\* the current round whose storage exists goes to that round storage and to
\* no other.
C26_OldProposalsDropped ==
    [][/\ \A p \in EarlyBlocks : ReceiveBlockProposal(p) =>
             /\ p.Round < nz.round => UNCHANGED <<rounds, nz, fin>>
             /\ (p.Round = nz.round /\ Has(rounds, p.Round)) =>
                   /\ Has(rounds'[p.Round].blocks, Hash(p))
                   /\ \A round \in DOMAIN rounds \ {p.Round} :
                         rounds'[round] = rounds[round]
                   /\ DOMAIN rounds' = DOMAIN rounds /\ nz' = nz
       /\ \A s \in EarlySigs : ReceiveSignatureProposal(s) =>
             /\ s.Block.Round < nz.round => UNCHANGED <<rounds, nz, fin>>
             /\ (s.Block.Round = nz.round /\ Has(rounds, nz.round)) =>
                   /\ Has(rounds'[nz.round].blocks, Hash(s.Block))
                   /\ \A round \in DOMAIN rounds \ {nz.round} :
                         rounds'[round] = rounds[round]
                   /\ DOMAIN rounds' = DOMAIN rounds /\ nz' = nz]_vars

\* round 2 is the current round and holds its block; round 1 is still stored
\* and never held a block: its proposals came too late
C26_Witness ==
    /\ nz.round = 2 /\ Has(rounds, 1) /\ Has(rounds, 2)
    /\ DOMAIN rounds[1].blocks = {}
    /\ DOMAIN rounds[2].blocks # {}

Arriving == {NotarizedOf(p) : p \in Proposals}

\* C28: a NotarizedBlock delivered to the node of a notarizer is kept in
\* tmpNot if its round is above the current round, is stored in the storage
\* of its round and handed to the finalizer if that storage exists, and is
\* dropped without any change otherwise: the notarizer, its round storages
\* and its finalizer are after the delivery what NewNotarizedBlock makes them.
C28_NotarizedBlockHandled ==
    [][\A n \in Arriving : ReceiveNotarizedBlock(n) =>
          LET res == NewNotarizedBlock(nz, rounds, fin[NotarizerNode], n)
          IN  /\ nz' = res.nz
              /\ rounds' = res.rounds
              /\ fin'[NotarizerNode] = res.f]_vars

\* C29: the beacon sends the packets of the rounds 1, 2, 3, ... one after the
\* other and each at most once: NewRound(r) with r other than the round of
\* the beacon changes nothing and sends nothing; the packet of round 1 is sent
\* by Start, and the packet of round r + 1 is sent only when the first
\* NotarizedBlock of round r is processed; a NotarizedBlock of another round,
\* or a further one of round r, sends no packet.
C29_BeaconRoundsConsecutive ==
    /\ [](/\ {p.Round : p \in packets} = 1..beacon.round
          /\ \A p, q \in packets : p.Round = q.Round => p = q
          /\ \A r \in 0..(MaxRound + 1) : r # beacon.round => NewRound(beacon, r) = beacon)
    /\ [][/\ packets' # packets =>
                /\ beacon'.round = beacon.round + 1
                /\ packets' = packets \cup {BeaconPacket(beacon')}
                /\ beacon.round = 0 => Start
                /\ beacon.round > 0 =>
                      /\ Get(fin[CallbackNode].notarized, beacon.round) = <<>>
                      /\ \E n \in produced : n.Block.Round = beacon.round /\ Process(n)
          /\ \A n \in produced : (Process(n) /\ n.Block.Round # beacon.round) =>
                UNCHANGED <<beacon, packets>>
          /\ packets' = packets => beacon' = beacon]_vars

\* the beacon has sent the packets of three rounds and node 0 has processed
\* two NotarizedBlocks of round 1
C29_Witness ==
    /\ beacon.round = 3
    /\ Cardinality(packets) = 3
    /\ Len(Get(fin[CallbackNode].notarized, 1)) >= 2

\* C30: every BlockProposal the block maker broadcasts for the beacon packet
\* of round R has Round R, the randomness of that packet, Owner = Index -
\* BeaconNb, and PrvHash and PrvSig are the header hash and the notarization
\* signature of a notarized block of round R - 1 held by its finalizer (the
\* genesis block for R = 1); it is built only when the highest round the
\* finalizer has seen is at least R - 1, and at most one proposal is built
\* for a beacon packet.
C30_ProposalOnNotarizedHead ==
    /\ [](/\ \A i \in 1..Len(net.blocks) :
                /\ net.blocks[i].Owner = BlockMakerNode - BeaconNb
                /\ \E p \in packets : /\ p.Round = net.blocks[i].Round
                                      /\ p.Randomness = net.blocks[i].Randomness
          /\ \A i, j \in 1..Len(net.blocks) :
                net.blocks[i].Round = net.blocks[j].Round => i = j)
    /\ [][net'.blocks # net.blocks =>
             /\ Len(net'.blocks) = Len(net.blocks) + 1
             /\ SubSeq(net'.blocks, 1, Len(net.blocks)) = net.blocks
             /\ LET b == net'.blocks[Len(net'.blocks)]
                    f == fin[BlockMakerNode]
                IN  /\ HighestRound(f) >= b.Round - 1
                    /\ \E n \in Range(Get(f.notarized, b.Round - 1)) :
                          /\ n.Block.Round = b.Round - 1
                          /\ b.PrvHash = Hash(n.Block)
                          /\ b.PrvSig = n.Signature
                    /\ b.Round = 1 => b.PrvHash = Hash(GenesisBlock)]_vars

\* the block maker has broadcast its blocks of rounds 1 and 2, the second on
\* top of a notarized block of the other block maker
C30_Witness ==
    /\ Len(net.blocks) = 2
    /\ \E n \in produced :
          /\ n.Block.Round = 1 /\ n.Block.Owner # BlockMakerNode - BeaconNb
          /\ net.blocks[2].Round = 2
          /\ net.blocks[2].PrvHash = Hash(n.Block)

\* C31: a block maker that has received the beacon packet of round R and a
\* notarized block of round R - 1 eventually broadcasts its proposal for
\* round R, whatever the interleaving of Process with the NewRound goroutine
\* (a block maker stopped by a panic of NewRound is the matter of C39, and
\* does not count here)
C31_ProposalAfterWait ==
    \A R \in 1..LiveRounds :
        (Has(tasks, R) /\ Has(fin[BlockMakerNode].notarized, R - 1))
            ~> \/ \E i \in 1..Len(net.blocks) : net.blocks[i].Round = R
               \/ ~Alive(BlockMakerNode)

\* C32: purge never finds two blocks of round start - 1 referenced by blocks
\* of round start: no finalizer stops on purge's "more than one referenced"
C32_AtMostOneReferenced ==
    \A node \in FinNodes :
        panicked[node] # "purge: that should not happen (more than one referenced)"

\* C33: the done callback is called once for a round, and only after the
\* finalize run of that round has moved the cursor past it
C33_DoneAfterCursor ==
    \A node \in {n \in FinNodes : HasDone(n)} :
        LET f == fin[node]
        IN  /\ NoDuplicates(f.doneLog)
            /\ \A k \in 1..Len(f.doneLog) : f.round > f.doneLog[k]

\* C34: the randomness the beacon emits is the sequence of the PRNG seeded
\* with Config.Seed: the packet of round r carries the r-th draw from it
C34_RandomnessFromConfigSeed ==
    \A p \in packets : p.Randomness = Int63(conf.Seed, p.Round)

\* the goroutine is about to lock Cond.L, or about to lock the finalizer
WantsL(g) == locks.pc[g] \in {"sleep", "woken", "done"}
WantsF(g) == locks.pc[g] \in {"store", "timer"}

\* C40: no goroutine that holds the finalizer's mutex asks for the
\* notarizer's mutex, and no holder of the notarizer's mutex waits for the
\* finalizer's mutex while its holder waits for the notarizer's: the two
\* mutexes are taken in one order only and no state is a deadlock of the two
C40_NoLockCycle ==
    /\ \A g \in DOMAIN locks.pc : locks.F = g => ~WantsL(g)
    /\ ~ \E g, h \in DOMAIN locks.pc :
            /\ locks.L = g /\ WantsF(g)
            /\ locks.F = h /\ WantsL(h)

\* a handler that holds the notarizer's mutex waits in Store for the
\* finalizer's mutex, which a finalize routine holds, while another routine
\* waits for the notarizer's mutex to delete its round
C40_Witness ==
    \E h \in Handlers : \E r, q \in Routines :
        /\ locks.L = h /\ At(h, "store")
        /\ locks.F = r /\ At(r, "final")
        /\ At(q, "done")

\* C35: a goroutine that reads or writes the notarizer's round, rounds map
\* or tmp buffers (a handler, a round loop under way, the deferred drain of
\* a round loop, deleteRound) holds the notarizer's mutex
C35_StateUnderMutex ==
    \A g \in DOMAIN locks.pc :
        locks.pc[g] \in {"locked", "store", "stored", "drain", "delete"} => locks.L = g

\* C36: whenever a round loop is about to wake from its sleep, the storage
\* of its round is in the rounds map
C36_StorageAtWakeUp ==
    \A round \in DOMAIN loops : loops[round] = "sleep" => Has(rounds, round)

\* the finalize goroutines of a finalizer that have not run yet
Sleeping(f) == {i \in 1..Len(f.routines) : f.routines[i].pc = "sleep"}

\* a finalize goroutine waits only for the round of the cursor, alone, and
\* the entries of the notarized map that it and purge will read are there
StartedAtCursor(f) ==
    /\ Cardinality(Sleeping(f)) <= 1
    /\ \A i \in Sleeping(f) :
          LET r == f.routines[i].round
          IN  /\ r = f.round
              /\ r >= 2 => /\ Len(Get(f.notarized, r - 2)) >= 1
                           /\ Len(Get(f.notarized, r - 1)) >= 1

\* C37: finalize(r) is started at most once and only while the cursor is r,
\* every lookup of finalize and purge in the notarized map finds an entry,
\* and every run of finalize advances the cursor by exactly 1, so that the
\* rounds are finalized in the order 1, 2, 3, ...
C37_FinalizeInOrder ==
    /\ [](\A node \in FinNodes : StartedAtCursor(fin[node]))
    /\ [][\A node \in FinNodes :
            IF Cardinality(Sleeping(fin'[node])) < Cardinality(Sleeping(fin[node]))
            THEN fin'[node].round = fin[node].round + 1
            ELSE fin'[node].round = fin[node].round]_vars

\* the part of C37 that is about the start of the routines and the lookups
C37_StartedAtCursor == \A node \in FinNodes : StartedAtCursor(fin[node])

\* C38: whenever purge(start) can run, two or more blocks of round start - 1
\* include one that a block of round start references, and when purge
\* returns, round start - 1 holds one block, which every block of round
\* start held by the finalizer names as PrvHash
C38_PurgeLeavesTheParent ==
    \A node \in FinNodes :
        LET f == fin[node]
        IN  \A i \in Sleeping(f) :
               LET start == f.routines[i].round - 1
                   prevBlocks == Get(f.notarized, start - 1)
                   startBlocks == Get(f.notarized, start)
                   p == purge(f.notarized, start)
               IN  start >= 1 =>
                     /\ Len(prevBlocks) >= 2 =>
                           Len(referencedIdx(prevBlocks, startBlocks)) >= 1
                     /\ p.panic = "" =>
                           /\ Len(p.notarized[start - 1]) = 1
                           /\ \A j \in 1..Len(startBlocks) :
                                 startBlocks[j].Block.PrvHash =
                                     Hash(p.notarized[start - 1][1].Block)

\* C39: whenever the wait of a NewRound goroutine that has not proposed yet
\* is over (the finalizer of the block maker has seen round R - 1 or a later
\* one), HighestChainHead(R - 1) returns a block
C39_HeadAfterWait ==
    \A p \in packets :
        (/\ p.Round <= LiveRounds
         /\ \A i \in 1..Len(net.blocks) : net.blocks[i].Round # p.Round
         /\ HighestRound(fin[BlockMakerNode]) >= p.Round - 1)
        => LET head == HighestChainHead(fin[BlockMakerNode], p.Round - 1)
           IN  head.panic = "" /\ head.err = "" /\ head.ret # Nil

====
